---- MODULE Spec2Model ----
(***************************************************************************)
(* Model of scripts/apply_styling.py: convert_to_styled_format, the        *)
(* document re-templater, and process_directory, which reads a page,       *)
(* converts it and writes it back; and, further down, of the link fixers,  *)
(* the registry re-tagging script, the page generators and the pillar      *)
(* index scripts, each with a specification of its own.                    *)
(*                                                                         *)
(* A text is a sequence of tokens; the text it stands for is the           *)
(* concatenation of its tokens.  Every character a regular expression of   *)
(* the script names literally (newline, space, # - * . : [ ] ( )) is a     *)
(* token of its own.  A run of other characters is one token: a question   *)
(* identifier ([A-Z]+\d+), a number (\d+), or a word.  Words and the HTML  *)
(* fragments the script emits hold none of the literal characters at a     *)
(* place where a pattern could match across a token boundary, so matching  *)
(* token by token is matching character by character.                      *)
(***************************************************************************)
EXTENDS Integers, Sequences, FiniteSets, TLC

(***************************************************************************)
(* Bounds of the input documents.                                          *)
(***************************************************************************)
\* Blocks of a page besides front matter, title and description: lead text,
\* section headings, section items and a trailing empty line.
MaxBlocks == 3
\* Times process_directory is run over the same file.
MaxRuns == 2

(***************************************************************************)
(* Tokens.                                                                 *)
(***************************************************************************)
NL == "\n"
SP == " "
Ids == {"SEC01", "SEC02"}
Digits == {"1", "2", "3", "4", "5", "6", "7", "8", "9"}
DigitTok == <<"1", "2", "3", "4", "5", "6", "7", "8", "9">>

\* [A-Z]+\d+
IsId(t) == t \in Ids
\* \d+
IsDigits(t) == t \in Digits
\* \s
IsSpace(t) == t \in {NL, SP}

(***************************************************************************)
(* Sequence helpers: the primitives of Python's re and str the script uses.*)
(***************************************************************************)
Least(S) == IF S = {} THEN 0 ELSE CHOOSE x \in S : \A y \in S : x <= y

\* The literal lit matches s at position i.
LitAt(s, i, lit) ==
    /\ i >= 1
    /\ i + Len(lit) - 1 <= Len(s)
    /\ \A k \in 1..Len(lit) : s[i + k - 1] = lit[k]

\* The first position >= from where lit matches, 0 if none.
FindLit(s, from, lit) ==
    Least({i \in from..(Len(s) - Len(lit) + 1) : LitAt(s, i, lit)})

\* s[a..b], empty when b < a.
Slice(s, a, b) == IF b < a THEN <<>> ELSE SubSeq(s, a, b)

\* s with s[a..b] removed.
Cut(s, a, b) == Slice(s, 1, a - 1) \o Slice(s, b + 1, Len(s))

\* str.strip(): leading and trailing whitespace removed.
strip(s) ==
    LET keep == {i \in 1..Len(s) : ~IsSpace(s[i])}
    IN  IF keep = {} THEN <<>>
        ELSE Slice(s, Least(keep), CHOOSE x \in keep : \A y \in keep : y <= x)

\* str.replace(old, new): every non-overlapping occurrence, left to right.
RECURSIVE ReplaceFrom(_, _, _, _)
ReplaceFrom(s, from, old, new) ==
    LET i == FindLit(s, from, old)
    IN  IF i = 0 \/ Len(old) = 0 THEN Slice(s, from, Len(s))
        ELSE Slice(s, from, i - 1) \o new
             \o ReplaceFrom(s, i + Len(old), old, new)

replace(s, old, new) == ReplaceFrom(s, 1, old, new)

\* old occurs in s.
Occurs(s, old) == FindLit(s, 1, old) # 0

\* Number of non-overlapping occurrences of old in s from position from.
RECURSIVE CountFrom(_, _, _)
CountFrom(s, from, old) ==
    LET i == FindLit(s, from, old)
    IN  IF i = 0 THEN 0 ELSE 1 + CountFrom(s, i + Len(old), old)

Count(s, old) == CountFrom(s, 1, old)

(***************************************************************************)
(* Front matter: re.match(r'^---\n(.*?)\n---\n', content, re.DOTALL).      *)
(***************************************************************************)
Fence == <<"-", "-", "-", NL>>
CloseFence == <<NL, "-", "-", "-", NL>>

\* Mutant of front_matter_match: the pattern without its closing fence,
\* r'^---\n(.*?)\n'.
front_matter_match_unclosed(content) ==
    IF ~LitAt(content, 1, Fence) THEN 0
    ELSE FindLit(content, Len(Fence) + 1, <<NL>>)

\* Length of the match (group(0)), 0 when there is none.
front_matter_match(content) ==
    IF ~LitAt(content, 1, Fence) THEN 0
    ELSE LET j == FindLit(content, Len(Fence) + 1, CloseFence)
         IN  IF j = 0 THEN 0 ELSE j + Len(CloseFence) - 1

(***************************************************************************)
(* Title: re.search(r'# ([A-Z]+\d+): (.*?)\n', text).                      *)
(***************************************************************************)
\* '# [A-Z]+\d+: ' matches s at i.
HeadAt(s, i) ==
    /\ i >= 1
    /\ i + 4 <= Len(s)
    /\ s[i] = "#" /\ s[i + 1] = SP /\ IsId(s[i + 2])
    /\ s[i + 3] = ":" /\ s[i + 4] = SP

\* Start of the match, 0 when there is none: the first head that has a
\* newline after it ('.' does not match a newline, so the lazy group ends
\* at the first one).
title_match(s) ==
    Least({i \in 1..Len(s) : HeadAt(s, i) /\ FindLit(s, i + 5, <<NL>>) # 0})

question_id(s) == s[title_match(s) + 2]

question_title(s) ==
    LET i == title_match(s)
    IN  Slice(s, i + 5, FindLit(s, i + 5, <<NL>>) - 1)

(***************************************************************************)
(* Description and header span:                                            *)
(* re.search(r'# [A-Z]+\d+: .*?\n\n(.*?)\n\n', text, re.DOTALL).           *)
(***************************************************************************)
Blank == <<NL, NL>>

\* [start, p, q]: the match starts at start, its first \n\n is at p and its
\* closing \n\n at q; start = 0 when there is no match.  With DOTALL both
\* lazy groups may cross lines, so the match is at the first head, p is the
\* first \n\n after it and q the first \n\n at or after p + 2.
description_match(s) ==
    LET i == Least({k \in 1..Len(s) : HeadAt(s, k)})
        p == IF i = 0 THEN 0 ELSE FindLit(s, i + 5, Blank)
        q == IF p = 0 THEN 0 ELSE FindLit(s, p + 2, Blank)
    IN  IF q = 0 THEN [start |-> 0, p |-> 0, q |-> 0]
        ELSE [start |-> i, p |-> p, q |-> q]

DefaultDescription ==
    << "*",
       "This page contains guidance for addressing this question from the AWS Well-Architected Framework.",
       "*" >>

description(s) ==
    LET m == description_match(s)
    IN  IF m.start = 0 THEN DefaultDescription
        ELSE Slice(s, m.p + 2, m.q - 1)

new_header(s) ==
    << "<div class=\"pillar-header\">", NL,
       SP, SP, "<h1>", question_id(s), ":", SP >> \o question_title(s)
    \o << "</h1>", NL, SP, SP, "<p>" >> \o description(s)
    \o << "</p>", NL, "</div>", NL, NL >>

\* r'# [A-Z]+\d+: .*?\n\n' without DOTALL matches at i: the heading line
\* that starts at i is followed by an empty line.
HeadLineAt(s, i) ==
    /\ HeadAt(s, i)
    /\ LET j == FindLit(s, i + 5, <<NL>>)
       IN  j # 0 /\ j + 1 <= Len(s) /\ s[j + 1] = NL

\* re.sub(header pattern, '', text, 1, re.DOTALL) and, when that leaves
\* nothing, re.sub(r'# [A-Z]+\d+: .*?\n\n', '', text, 1).
content_without_header(s) ==
    LET m == description_match(s)
        first == IF m.start = 0 THEN s ELSE Cut(s, m.start, m.q + 1)
    IN  IF first # <<>> THEN first
        ELSE LET i == Least({k \in 1..Len(s) : HeadLineAt(s, k)})
             IN  IF i = 0 THEN s
                 ELSE Cut(s, i, FindLit(s, i + 5, <<NL>>) + 1)

(***************************************************************************)
(* Sections:                                                               *)
(* re.search(r'## <name>\n\n(.*?)(?=\n##|\Z)', styled_content, re.DOTALL). *)
(***************************************************************************)
SectionHead(name) == <<"#", "#", SP, name, NL, NL>>

\* The lookahead (?=\n##|\Z) holds at position e of s.
SectionEndAt(s, e) == e = Len(s) + 1 \/ LitAt(s, e, <<NL, "#", "#">>)

\* [start, body, stop]: group(0) is s[start..stop - 1] and group(1) is
\* s[body..stop - 1]; start = 0 when the heading does not occur.
section_match(s, name) ==
    LET i == FindLit(s, 1, SectionHead(name))
        b == i + Len(SectionHead(name))
    IN  IF i = 0 THEN [start |-> 0, body |-> 0, stop |-> 0]
        ELSE [start |-> i, body |-> b,
              stop |-> Least({e \in b..(Len(s) + 1) : SectionEndAt(s, e)})]

section_group0(s, m) == Slice(s, m.start, m.stop - 1)
section_content(s, m) == Slice(s, m.body, m.stop - 1)

(***************************************************************************)
(* Best practices:                                                         *)
(* re.findall(r'### (.*?)\n(.*?)(?=\n###|\Z)', content, re.DOTALL).        *)
(***************************************************************************)
PracticeEndAt(s, e) == e = Len(s) + 1 \/ LitAt(s, e, <<NL, "#", "#", "#">>)

RECURSIVE practices_from(_, _)
practices_from(s, pos) ==
    LET i == FindLit(s, pos, <<"#", "#", "#", SP>>)
        j == IF i = 0 THEN 0 ELSE FindLit(s, i + 4, <<NL>>)
    IN  IF j = 0 THEN <<>>
        ELSE LET e == Least({k \in (j + 1)..(Len(s) + 1) : PracticeEndAt(s, k)})
             IN  << [title |-> Slice(s, i + 4, j - 1),
                     content |-> Slice(s, j + 1, e - 1)] >>
                 \o practices_from(s, e)

\* Mutant of practices: the sub-heading pattern written with four hashes.
practices_four_hashes(s) ==
    IF Occurs(s, <<"#", "#", "#", "#", SP>>) THEN practices_from(s, 1) ELSE <<>>

practices(s) == practices_from(s, 1)

best_practice_block(title, content) ==
    << "<div class=\"best-practice\">", NL, SP, SP, "<h4>" >> \o title
    \o << "</h4>", NL, SP, SP, "<p>" >> \o content
    \o << "</p>", NL, "</div>", NL, NL >>

RECURSIVE best_practice_blocks(_)
best_practice_blocks(ps) ==
    IF ps = <<>> THEN <<>>
    ELSE best_practice_block(Head(ps).title, strip(Head(ps).content))
         \o best_practice_blocks(Tail(ps))

styled_best_practices(content) ==
    SectionHead("Best Practices")
    \o (IF practices(content) # <<>> THEN best_practice_blocks(practices(content))
        ELSE best_practice_block(<<"Best Practice">>, strip(content)))

\* The section step of the function: search, build, str.replace.
style_best_practices(s) ==
    LET m == section_match(s, "Best Practices")
    IN  IF m.start = 0 THEN s
        ELSE replace(s, section_group0(s, m), styled_best_practices(section_content(s, m)))

(***************************************************************************)
(* Implementation guidance.                                                *)
(***************************************************************************)
\* First position >= i that holds no whitespace (Len(s) + 1 at the end).
SkipSpace(s, i) == Least({k \in i..(Len(s) + 1) : k = Len(s) + 1 \/ ~IsSpace(s[k])})

\* '\d+\.\s+' matches s at i.
NumberAt(s, i) ==
    /\ i >= 1
    /\ i + 2 <= Len(s)
    /\ IsDigits(s[i]) /\ s[i + 1] = "." /\ IsSpace(s[i + 2])

\* The lookahead (?=\n\d+\.|\Z) holds at position e of s.
StepEndAt(s, e) ==
    \/ e = Len(s) + 1
    \/ e + 2 <= Len(s) /\ s[e] = NL /\ IsDigits(s[e + 1]) /\ s[e + 2] = "."

\* r'\d+\.\s+\*\*(.*?)\*\*:(.*?)(?=\n\d+\.|\Z)' matches s at i.
BoldStepAt(s, i) ==
    /\ NumberAt(s, i)
    /\ LitAt(s, SkipSpace(s, i + 2), <<"*", "*">>)
    /\ FindLit(s, SkipSpace(s, i + 2) + 2, <<"*", "*", ":">>) # 0

\* re.findall(r'\d+\.\s+\*\*(.*?)\*\*:(.*?)(?=\n\d+\.|\Z)', content, re.DOTALL)
RECURSIVE bold_steps_from(_, _)
bold_steps_from(s, pos) ==
    LET i == Least({k \in pos..Len(s) : BoldStepAt(s, k)})
    IN  IF i = 0 THEN <<>>
        ELSE LET w == SkipSpace(s, i + 2)
                 t == FindLit(s, w + 2, <<"*", "*", ":">>)
                 e == Least({k \in (t + 3)..(Len(s) + 1) : StepEndAt(s, k)})
             IN  << [title |-> Slice(s, w + 2, t - 1),
                     content |-> Slice(s, t + 3, e - 1)] >>
                 \o bold_steps_from(s, e)

bold_steps(s) == bold_steps_from(s, 1)

\* re.findall(r'(\d+\.\s+.*?)(?=\n\d+\.|\Z)', content, re.DOTALL)
RECURSIVE numbered_steps_from(_, _)
numbered_steps_from(s, pos) ==
    LET i == Least({k \in pos..Len(s) : NumberAt(s, k)})
    IN  IF i = 0 THEN <<>>
        ELSE LET w == SkipSpace(s, i + 2)
                 e == Least({k \in w..(Len(s) + 1) : StepEndAt(s, k)})
             IN  << Slice(s, i, e - 1) >> \o numbered_steps_from(s, e)

numbered_steps(s) == numbered_steps_from(s, 1)

\* re.sub(r'^\d+\.\s+', '', step_content.strip())
step_text(step) ==
    LET t == strip(step)
    IN  IF NumberAt(t, 1) THEN Slice(t, SkipSpace(t, 3), Len(t)) ELSE t

implementation_step_block(heading, content) ==
    << "<div class=\"implementation-step\">", NL, SP, SP, "<h4>" >> \o heading
    \o << "</h4>", NL, SP, SP, "<p>" >> \o content
    \o << "</p>", NL, "</div>", NL, NL >>

\* enumerate(steps, 1) over the bold steps, from number i.
RECURSIVE bold_step_blocks(_, _)
bold_step_blocks(steps, i) ==
    IF steps = <<>> THEN <<>>
    ELSE implementation_step_block(<<DigitTok[i], ".", SP>> \o Head(steps).title,
                                   strip(Head(steps).content))
         \o bold_step_blocks(Tail(steps), i + 1)

RECURSIVE numbered_step_blocks(_, _)
numbered_step_blocks(steps, i) ==
    IF steps = <<>> THEN <<>>
    ELSE implementation_step_block(<<"Step", SP, DigitTok[i]>>, step_text(Head(steps)))
         \o numbered_step_blocks(Tail(steps), i + 1)

\* styled_impl with its first two branches swapped: the looser numbered-item
\* pattern is tried before the bold-step pattern.
styled_impl_numbered_first(content) ==
    SectionHead("Implementation Guidance")
    \o (IF numbered_steps(content) # <<>>
        THEN numbered_step_blocks(numbered_steps(content), 1)
        ELSE IF bold_steps(content) # <<>>
             THEN bold_step_blocks(bold_steps(content), 1)
             ELSE implementation_step_block(<<"Implementation Guidance">>,
                                            strip(content)))

styled_impl(content) ==
    SectionHead("Implementation Guidance")
    \o (IF bold_steps(content) # <<>> THEN bold_step_blocks(bold_steps(content), 1)
        ELSE IF numbered_steps(content) # <<>>
             THEN numbered_step_blocks(numbered_steps(content), 1)
             ELSE implementation_step_block(<<"Implementation Guidance">>,
                                            strip(content)))

\* The section step of the function: search, build, str.replace.
style_implementation(s) ==
    LET m == section_match(s, "Implementation Guidance")
    IN  IF m.start = 0 THEN s
        ELSE replace(s, section_group0(s, m), styled_impl(section_content(s, m)))

(***************************************************************************)
(* AWS services.                                                           *)
(***************************************************************************)
\* The lookahead (?=\n-|\Z) holds at position e of s.
ItemEndAt(s, e) == e = Len(s) + 1 \/ LitAt(s, e, <<NL, "-">>)

\* r'- \*\*(.*?)\*\* - (.*?)(?=\n-|\Z)' matches s at i.
BoldServiceAt(s, i) ==
    /\ LitAt(s, i, <<"-", SP, "*", "*">>)
    /\ FindLit(s, i + 4, <<"*", "*", SP, "-", SP>>) # 0

\* re.findall(r'- \*\*(.*?)\*\* - (.*?)(?=\n-|\Z)', content, re.DOTALL)
RECURSIVE bold_services_from(_, _)
bold_services_from(s, pos) ==
    LET i == Least({k \in pos..Len(s) : BoldServiceAt(s, k)})
    IN  IF i = 0 THEN <<>>
        ELSE LET t == FindLit(s, i + 4, <<"*", "*", SP, "-", SP>>)
                 e == Least({k \in (t + 5)..(Len(s) + 1) : ItemEndAt(s, k)})
             IN  << [name |-> Slice(s, i + 4, t - 1),
                     desc |-> Slice(s, t + 5, e - 1)] >>
                 \o bold_services_from(s, e)

bold_services(s) == bold_services_from(s, 1)

\* re.findall(r'- (.*?)(?=\n-|\Z)', content, re.DOTALL)
RECURSIVE list_items_from(_, _)
list_items_from(s, pos) ==
    LET i == FindLit(s, pos, <<"-", SP>>)
    IN  IF i = 0 THEN <<>>
        ELSE LET e == Least({k \in (i + 2)..(Len(s) + 1) : ItemEndAt(s, k)})
             IN  << Slice(s, i + 2, e - 1) >> \o list_items_from(s, e)

list_items(s) == list_items_from(s, 1)

aws_service_block(name, desc) ==
    << "<div class=\"aws-service\">", NL,
       SP, SP, "<div class=\"aws-service-content\">", NL,
       SP, SP, SP, SP, "<h4>" >> \o name
    \o << "</h4>", NL, SP, SP, SP, SP, "<p>" >> \o desc
    \o << "</p>", NL, SP, SP, "</div>", NL, "</div>", NL, NL >>

RECURSIVE bold_service_blocks(_)
bold_service_blocks(svcs) ==
    IF svcs = <<>> THEN <<>>
    ELSE aws_service_block(Head(svcs).name, strip(Head(svcs).desc))
         \o bold_service_blocks(Tail(svcs))

RECURSIVE plain_service_blocks(_)
plain_service_blocks(svcs) ==
    IF svcs = <<>> THEN <<>>
    ELSE aws_service_block(strip(Head(svcs)), <<"AWS service for this question.">>)
         \o plain_service_blocks(Tail(svcs))

styled_services(content) ==
    SectionHead("AWS Services to Consider")
    \o (IF bold_services(content) # <<>> THEN bold_service_blocks(bold_services(content))
        ELSE IF list_items(content) # <<>> THEN plain_service_blocks(list_items(content))
             ELSE aws_service_block(<<"AWS Services">>,
                                    <<"Add relevant AWS services for this question.">>))

\* The section step of the function: search, build, str.replace.
style_services(s) ==
    LET m == section_match(s, "AWS Services to Consider")
    IN  IF m.start = 0 THEN s
        ELSE replace(s, section_group0(s, m), styled_services(section_content(s, m)))

(***************************************************************************)
(* Related resources.                                                      *)
(***************************************************************************)
\* s[a..b] holds no newline ('.' without DOTALL).
NoNewline(s, a, b) == \A k \in a..b : s[k] # NL

\* Ends u of a match of r'- \[(.*?)\]\((.*?)\)' whose '](' is at t.
LinkCloses(s, t) ==
    {u \in (t + 2)..Len(s) : s[u] = ")" /\ NoNewline(s, t + 2, u - 1)}

\* Places t of '](' of a match that starts at i.
LinkMiddles(s, i) ==
    {t \in (i + 3)..Len(s) :
        LitAt(s, t, <<"]", "(">>) /\ NoNewline(s, i + 3, t - 1)
        /\ LinkCloses(s, t) # {}}

LinkAt(s, i) == LitAt(s, i, <<"-", SP, "[">>) /\ LinkMiddles(s, i) # {}

\* re.findall(r'- \[(.*?)\]\((.*?)\)', content)
RECURSIVE links_from(_, _)
links_from(s, pos) ==
    LET i == Least({k \in pos..Len(s) : LinkAt(s, k)})
    IN  IF i = 0 THEN <<>>
        ELSE LET t == Least(LinkMiddles(s, i))
                 u == Least(LinkCloses(s, t))
             IN  << [name |-> Slice(s, i + 3, t - 1),
                     url |-> Slice(s, t + 2, u - 1)] >>
                 \o links_from(s, u + 1)

links(s) == links_from(s, 1)

RECURSIVE link_items(_)
link_items(ls) ==
    IF ls = <<>> THEN <<>>
    ELSE << SP, SP, SP, SP, "<li><a href=\"" >> \o Head(ls).url
         \o << "\">" >> \o Head(ls).name \o << "</a></li>", NL >>
         \o link_items(Tail(ls))

RECURSIVE plain_items(_)
plain_items(rs) ==
    IF rs = <<>> THEN <<>>
    ELSE << SP, SP, SP, SP, "<li>" >> \o strip(Head(rs)) \o << "</li>", NL >>
         \o plain_items(Tail(rs))

styled_resources(content) ==
    << "<div class=\"related-resources\">", NL,
       SP, SP, "<h2>", "Related Resources", "</h2>", NL,
       SP, SP, "<ul>", NL >>
    \o (IF links(content) # <<>> THEN link_items(links(content))
        ELSE IF list_items(content) # <<>> THEN plain_items(list_items(content))
             ELSE << SP, SP, SP, SP, "<li>",
                     "Add related resources for this question.", "</li>", NL >>)
    \o << SP, SP, "</ul>", NL, "</div>" >>

\* The section step of the function: search, build, str.replace.
style_resources(s) ==
    LET m == section_match(s, "Related Resources")
    IN  IF m.start = 0 THEN s
        ELSE replace(s, section_group0(s, m), styled_resources(section_content(s, m)))

(***************************************************************************)
(* convert_to_styled_format.                                               *)
(***************************************************************************)
styled_content(s) ==
    style_resources(style_services(style_implementation(style_best_practices(
        content_without_header(s)))))

convert_to_styled_format(content) ==
    LET n == front_matter_match(content)
        front_matter == Slice(content, 1, n)
        content_without_front_matter == Slice(content, n + 1, Len(content))
    IN  IF n = 0 THEN content
        ELSE IF title_match(content_without_front_matter) = 0 THEN content
        ELSE front_matter
             \o new_header(content_without_front_matter)
             \o styled_content(content_without_front_matter)

(***************************************************************************)
(* Input documents.  A page is front matter, then blocks (lead text,       *)
(* title, description, section headings, section items) separated by empty *)
(* lines.  In the generated layout it is laid out as generate_question_file *)
(* lays it out: an empty line after the front matter and the bullets of a   *)
(* list one per line; the page that function writes is an initial state.    *)
(* In the spaced layout, that of a page edited by hand, the first block     *)
(* follows the front matter at once and every item is a block of its own.   *)
(***************************************************************************)
KnownSections ==
    {"Best Practices", "Implementation Guidance",
     "AWS Services to Consider", "Related Resources"}
SectionNames == KnownSections \cup {"Overview"}

\* The item kinds a section of each name is written with.
ItemKinds(name) ==
    CASE name = "Best Practices" -> {"h3", "text"}
      [] name = "Implementation Guidance" -> {"bstep", "step", "text"}
      [] name = "AWS Services to Consider" -> {"bsvc", "bullet", "text"}
      [] name = "Related Resources" -> {"link", "bullet", "text"}
      [] OTHER -> {"h3", "idh3", "text"}

\* Words of the i-th item of a section: its title and its text.
TitleWord == <<"Alpha", "Beta", "Gamma", "Delta", "Epsilon", "Zeta">>
BodyWord == <<"alpha", "beta", "gamma", "delta", "epsilon", "zeta">>

ItemText(kind, i) ==
    CASE kind = "h3" -> <<"#", "#", "#", SP, TitleWord[i], NL, BodyWord[i]>>
      [] kind = "idh3" ->
            <<"#", "#", "#", SP, "SEC02", ":", SP, TitleWord[i], NL, BodyWord[i]>>
      [] kind = "text" -> <<BodyWord[i]>>
      [] kind = "bstep" ->
            <<DigitTok[i], ".", SP, "*", "*", TitleWord[i], "*", "*", ":", SP, BodyWord[i]>>
      [] kind = "step" -> <<DigitTok[i], ".", SP, BodyWord[i]>>
      [] kind = "bsvc" ->
            <<"-", SP, "*", "*", TitleWord[i], "*", "*", SP, "-", SP, BodyWord[i]>>
      [] kind = "bullet" -> <<"-", SP, BodyWord[i]>>
      [] kind = "link" -> <<"-", SP, "[", TitleWord[i], "]", "(", BodyWord[i], ")">>

FrontMatterText(fm) ==
    CASE fm = "fm" -> Fence \o <<"title: x">> \o CloseFence
      [] fm = "open" -> Fence \o <<"title: x", NL>>
      [] OTHER -> <<>>

TitleText(title) ==
    CASE title = "h1" -> <<"#", SP, "SEC01", ":", SP, "Title">>
      [] title = "h2" -> <<"#", "#", SP, "SEC01", ":", SP, "Title">>

\* The items generate_question_file writes one per line: the bullets of
\* AWS Services to Consider and of Related Resources.
IsBullet(kind) == kind \in {"bsvc", "bullet", "link"}

\* The blocks of the items from the i-th on.  In the generated layout a
\* bullet that follows a bullet is on the next line of the same block; in
\* the spaced layout every item is a block of its own.
RECURSIVE ItemBlocks(_, _, _)
ItemBlocks(items, i, layout) ==
    IF i > Len(items) THEN <<>>
    ELSE LET rest == ItemBlocks(items, i + 1, layout)
         IN  IF /\ layout = "generated" /\ i < Len(items)
                /\ IsBullet(items[i]) /\ IsBullet(items[i + 1])
             THEN <<ItemText(items[i], i) \o <<NL>> \o Head(rest)>> \o Tail(rest)
             ELSE <<ItemText(items[i], i)>> \o rest

RECURSIVE SectionBlocks(_, _)
SectionBlocks(secs, layout) ==
    IF secs = <<>> THEN <<>>
    ELSE << <<"#", "#", SP, Head(secs).name>> >>
         \o ItemBlocks(Head(secs).items, 1, layout)
         \o SectionBlocks(Tail(secs), layout)

Blocks(d) ==
    (IF d.lead = "text" THEN << <<"Intro">> >> ELSE <<>>)
    \o (IF d.title = "none" THEN <<>> ELSE <<TitleText(d.title)>>)
    \o (IF d.desc = "para" THEN << <<"Para">> >> ELSE <<>>)
    \o SectionBlocks(d.secs, d.layout)

RECURSIVE JoinBlocks(_)
JoinBlocks(bs) ==
    IF bs = <<>> THEN <<>>
    ELSE IF Len(bs) = 1 THEN Head(bs)
    ELSE Head(bs) \o Blank \o JoinBlocks(Tail(bs))

\* The text of the page.  The generated layout is the one of
\* generate_question_file: an empty line after the front matter, blocks
\* separated by empty lines, bullets one per line.  The spaced layout starts
\* right after the front matter.
Render(d) ==
    FrontMatterText(d.fm)
    \o (IF d.layout = "generated" THEN <<NL>> ELSE <<>>)
    \o JoinBlocks(Blocks(d)) \o <<NL>>
    \o (IF d.tail = "blank" THEN <<NL>> ELSE <<>>)

(***************************************************************************)
(* The page being written and styled.                                      *)
(*   doc      what the author has put on the page: the kind of front       *)
(*            matter, lead, title, description and tail, and the sections  *)
(*   content  the text of the file                                         *)
(*   orig     the text the last process_directory read (the text of the    *)
(*            file while none has run)                                     *)
(*   runs     how often process_directory has run over the file            *)
(***************************************************************************)
VARIABLES doc, content, orig, runs

(***************************************************************************)
(* The state of the other scripts of the repository, which the page        *)
(* scripts leave alone.                                                    *)
(*   fs    the files and directories under ./docs: path -> text            *)
(*   out   the lines printed so far                                        *)
(*   pc    where the running script is                                     *)
(*   ecr   the tags of the image registry: tag -> manifest                 *)
(*   web   the answer of the documentation site to the appendix request    *)
(***************************************************************************)
VARIABLES fs, out, pc, ecr, web

vars == <<doc, content, orig, runs, fs, out, pc, ecr, web>>
pagevars == <<doc, content, orig, runs>>
scriptvars == <<fs, out, pc, ecr, web>>

\* No other script is running and nothing of its world is looked at.
NoScript ==
    fs = <<>> /\ out = <<>> /\ pc = "idle" /\ ecr = <<>> /\ web = <<>>

\* No page is being written or styled.
NoPage == doc = <<>> /\ content = <<>> /\ orig = <<>> /\ runs = 0

\* Blocks counted against MaxBlocks: lead text, the trailing empty line,
\* section headings and section items.
RECURSIVE SectionCost(_)
SectionCost(secs) ==
    IF secs = <<>> THEN 0
    ELSE 1 + Len(Head(secs).items) + SectionCost(Tail(secs))

Cost(d) ==
    (IF d.lead = "text" THEN 1 ELSE 0) + (IF d.tail = "blank" THEN 1 ELSE 0)
    + SectionCost(d.secs)

\* The page generate_question_file writes: front matter, title heading,
\* description, and the four sections with one paragraph, three bold
\* steps, three bold services and three links.
GeneratedDoc ==
    [fm |-> "fm", lead |-> "none", title |-> "h1", desc |-> "para",
     tail |-> "nl", layout |-> "generated",
     secs |-> <<[name |-> "Best Practices", items |-> <<"text">>],
                [name |-> "Implementation Guidance",
                 items |-> <<"bstep", "bstep", "bstep">>],
                [name |-> "AWS Services to Consider",
                 items |-> <<"bsvc", "bsvc", "bsvc">>],
                [name |-> "Related Resources",
                 items |-> <<"link", "link", "link">>]>>]

\* The pages process_directory reads: the generated page, or a page of
\* either layout within the bound.  orig keeps the text as it was read
\* before the first run and runs counts the runs of process_directory; the
\* properties compare content with them.
Init ==
    /\ \/ /\ doc \in [fm : {"fm", "none", "open"}, lead : {"none", "text"},
                       title : {"none", "h1", "h2"}, desc : {"none", "para"},
                       tail : {"nl", "blank"}, layout : {"spaced", "generated"},
                       secs : {<<>>}]
          /\ Cost(doc) <= MaxBlocks
       \/ doc = GeneratedDoc
    /\ content = Render(doc)
    /\ orig = content
    /\ runs = 0
    /\ NoScript

\* The author appends a section heading.
AddSection(name) ==
    /\ runs = 0
    /\ Cost(doc) < MaxBlocks
    /\ doc' = [doc EXCEPT !.secs = Append(@, [name |-> name, items |-> <<>>])]
    /\ content' = Render(doc')
    /\ orig' = content'
    /\ UNCHANGED <<runs, scriptvars>>

\* The author appends an item to the last section.
AddItem(kind) ==
    /\ runs = 0
    /\ Cost(doc) < MaxBlocks
    /\ doc.secs # <<>>
    /\ kind \in ItemKinds(doc.secs[Len(doc.secs)].name)
    /\ doc' = [doc EXCEPT !.secs[Len(doc.secs)].items = Append(@, kind)]
    /\ content' = Render(doc')
    /\ orig' = content'
    /\ UNCHANGED <<runs, scriptvars>>

\* process_directory over the page: read, convert, write back.
process_directory ==
    /\ runs < MaxRuns
    /\ orig' = content
    /\ content' = convert_to_styled_format(content)
    /\ runs' = runs + 1
    /\ UNCHANGED <<doc, scriptvars>>

AllItemKinds == {"h3", "idh3", "text", "bstep", "step", "bsvc", "bullet", "link"}

Next ==
    \/ \E name \in SectionNames : AddSection(name)
    \/ \E kind \in AllItemKinds : AddItem(kind)
    \/ process_directory

Spec == Init /\ [][Next]_vars

(***************************************************************************)
(* Properties.  What a page holds is read off doc, what the author wrote;  *)
(* what the function made of it is read off orig and content.              *)
(***************************************************************************)
\* The page has the identifier pattern '# <ID>: <Title>' somewhere.
HasIdHeading(d) ==
    \/ d.title # "none"
    \/ \E i \in 1..Len(d.secs) :
          \E j \in 1..Len(d.secs[i].items) : d.secs[i].items[j] = "idh3"

\* The sections of d that are named name.
SectionsNamed(d, name) == {i \in 1..Len(d.secs) : d.secs[i].name = name}

PillarHeaderOpen == <<"<div class=\"pillar-header\">">>
BestPracticeOpen == <<"<div class=\"best-practice\">">>

\* C1: a page whose text does not start with a front-matter block (a ---
\* line, content, a --- line) is returned unchanged by
\* convert_to_styled_format.
C1_NoFrontMatterUnchanged ==
    (runs >= 1 /\ doc.fm # "fm") => content = orig

C1_Witness ==
    /\ runs = 1 /\ doc.fm = "open" /\ doc.title = "h1" /\ doc.desc = "para"
    /\ doc.secs # <<>>
    /\ content = orig

\* C2: a page that has front matter but no heading of the form
\* '# <ID>: <Title>' is returned unchanged.  A heading of that form is a
\* first-level heading; a page whose identifier is only in a deeper heading
\* ('## SEC01: Title', '### SEC02: Alpha') has none.
C2_NoTitleUnchanged ==
    (runs >= 1 /\ doc.fm = "fm" /\ doc.title # "h1") => content = orig

\* C3: for a page with front matter, the heading '# SEC01: Title', one
\* paragraph and a Best Practices section of exactly one '### Alpha' heading
\* plus body, the output holds a pillar-header block carrying 'SEC01: Title'
\* and exactly one best-practice block, whose heading is 'Alpha'.  The page
\* is in either layout; text before the title, a trailing empty line and a
\* section after Best Practices may be there.
C3_EndToEnd ==
    (/\ runs = 1 /\ doc.fm = "fm" /\ doc.title = "h1" /\ doc.desc = "para"
     /\ SectionsNamed(doc, "Best Practices") = {1}
     /\ doc.secs[1].items = <<"h3">>)
    => /\ Occurs(content, PillarHeaderOpen
                          \o <<NL, SP, SP, "<h1>", "SEC01", ":", SP, "Title", "</h1>">>)
       /\ Count(content, PillarHeaderOpen) = 1
       /\ Count(content, BestPracticeOpen) = 1
       /\ Occurs(content, BestPracticeOpen
                          \o <<NL, SP, SP, "<h4>", "Alpha", "</h4>", NL,
                               SP, SP, "<p>", "alpha", "</p>", NL, "</div>">>)

C3_Witness ==
    /\ runs = 1 /\ doc.fm = "fm" /\ doc.title = "h1" /\ doc.desc = "para"
    /\ doc.lead = "none"
    /\ doc.secs = <<[name |-> "Best Practices", items |-> <<"h3">>]>>
    /\ Occurs(content, BestPracticeOpen \o <<NL, SP, SP, "<h4>", "Alpha", "</h4>">>)

(***************************************************************************)
(* Sections and their wrappers, as the claims name them.                   *)
(***************************************************************************)
\* The item kind that is the structured sub-item of a known section.
StructuredKind(name) ==
    CASE name = "Best Practices" -> "h3"
      [] name = "Implementation Guidance" -> "bstep"
      [] name = "AWS Services to Consider" -> "bsvc"
      [] name = "Related Resources" -> "link"

\* The opening of the wrapper block of one sub-item of a known section.
WrapperOpen(name) ==
    CASE name = "Best Practices" -> BestPracticeOpen
      [] name = "Implementation Guidance" -> <<"<div class=\"implementation-step\">">>
      [] name = "AWS Services to Consider" -> <<"<div class=\"aws-service\">">>
      [] name = "Related Resources" -> <<SP, SP, SP, SP>>

\* The first token of a sub-item left as the author wrote it.
RawMarker(name) ==
    CASE name = "Best Practices" -> <<"#", "#", "#", SP>>
      [] name = "Implementation Guidance" -> <<".", SP, "*", "*">>
      [] name = "AWS Services to Consider" -> <<"-", SP, "*", "*">>
      [] name = "Related Resources" -> <<"-", SP, "[">>

AllItems(sec, kind) == \A j \in 1..Len(sec.items) : sec.items[j] = kind

\* A page with front matter, the title heading and a description paragraph.
WellHeaded(d) == d.fm = "fm" /\ d.title = "h1" /\ d.desc = "para"

\* The text between front matter and end of file.
AfterFrontMatter(text) == Slice(text, front_matter_match(text) + 1, Len(text))

\* The text the function searches the section called name in.
StageText(text, name) ==
    LET s0 == content_without_header(AfterFrontMatter(text))
    IN  CASE name = "Best Practices" -> s0
          [] name = "Implementation Guidance" -> style_best_practices(s0)
          [] name = "AWS Services to Consider" ->
                style_implementation(style_best_practices(s0))
          [] name = "Related Resources" ->
                style_services(style_implementation(style_best_practices(s0)))

\* C4: the output keeps the heading of a known section and follows it with
\* exactly one wrapper block per sub-item of the section: n sub-items give n
\* wrapper blocks and no sub-item is left unwrapped.  Stated for a page whose
\* only section is a known one with n >= 1 structured sub-items; for Related
\* Resources, whose heading the function rewrites as an <h2> of the list
\* block, the heading is not asked for.
C4_OneWrapperPerSubItem ==
    (/\ runs = 1 /\ WellHeaded(doc) /\ Len(doc.secs) = 1
     /\ doc.secs[1].name \in KnownSections
     /\ doc.secs[1].items # <<>>
     /\ AllItems(doc.secs[1], StructuredKind(doc.secs[1].name)))
    => LET name == doc.secs[1].name
       IN  /\ name # "Related Resources"
                => Occurs(content, <<"#", "#", SP, name, NL>>)
           /\ Count(content, WrapperOpen(name)) = Len(doc.secs[1].items)
           /\ ~Occurs(content, RawMarker(name))

\* C5: the body the function takes for a known section is the text from
\* just after the section heading up to the next second-level heading
\* ('## ') or the end of the document; a '### ' heading inside the section
\* does not end it.  Stated for pages whose sections all have a body.
C5_BodyUpToNextSection ==
    (/\ runs = 1 /\ WellHeaded(doc)
     /\ \A i \in 1..Len(doc.secs) : doc.secs[i].items # <<>>)
    => \A name \in KnownSections :
          SectionsNamed(doc, name) # {}
          => LET s == StageText(orig, name)
                 m == section_match(s, name)
             IN  /\ m.start # 0
                 /\ m.stop = Least({e \in m.body..(Len(s) + 1) :
                                      \/ e = Len(s) + 1
                                      \/ LitAt(s, e, <<NL, "#", "#", SP>>)})

\* C6: every section whose heading is not one of the four known names is in
\* the output byte for byte, heading and body, for every page with front
\* matter and a matching title heading, also when the section directly
\* follows the title heading.
C6_UnknownSectionsUntouched ==
    (runs = 1 /\ doc.fm = "fm" /\ doc.title = "h1" /\ doc.lead = "none")
    => \A i \in SectionsNamed(doc, "Overview") :
          Occurs(content, JoinBlocks(SectionBlocks(<<doc.secs[i]>>, doc.layout)) \o <<NL>>)

\* C7: applying the function to its own output returns that output
\* unchanged.  Stated for pages that start with front matter, title heading
\* and description paragraph and have at least one section.
C7_Idempotent ==
    (runs = 2 /\ WellHeaded(doc) /\ doc.lead = "none" /\ doc.secs # <<>>)
    => content = orig

\* C8: the heading line and its description paragraph are replaced by the
\* pillar-header block: the output has exactly one pillar-header, the
\* original heading line is gone and the description text is only inside the
\* pillar-header; also when no description follows the heading and when the
\* page is nothing but heading and description.
C8_HeaderReplaced ==
    (runs = 1 /\ doc.fm = "fm" /\ doc.title = "h1" /\ doc.lead = "none")
    => /\ Count(content, PillarHeaderOpen) = 1
       /\ ~Occurs(content, TitleText("h1") \o <<NL>>)
       /\ doc.desc = "para"
            => /\ Count(content, <<"Para">>) = 1
               /\ Occurs(content, <<"<p>", "Para", "</p>">>)

\* C10: the function rewrites a page only when the first content after the
\* front matter is a first-level heading '# <ID>: <Title>'; when the pattern
\* is only later in the page or only part of a deeper heading, the output is
\* the input.
C10_OnlyLeadingFirstLevelHeading ==
    (runs = 1 /\ doc.fm = "fm" /\ ~(doc.title = "h1" /\ doc.lead = "none"))
    => content = orig

\* The body of a section as the author wrote it, without the empty lines
\* around it.
BodyOf(sec) == JoinBlocks(ItemBlocks(sec.items, 1, doc.layout))

\* The generic heading of the one block the fallback of a section emits.
GenericHeading(name) ==
    CASE name = "Best Practices" -> "Best Practice"
      [] name = "Implementation Guidance" -> "Implementation Guidance"
      [] name = "AWS Services to Consider" -> "AWS Services"
      [] name = "Related Resources" -> "Related Resources"

\* The one block of section sec holds the whole body of sec.
WrapsWholeBody(sec) ==
    IF sec.name = "Related Resources"
    THEN /\ Count(content, <<"<li>">>) = 1
         /\ Occurs(content, <<"<li>">> \o BodyOf(sec) \o <<"</li>">>)
    ELSE /\ Count(content, WrapperOpen(sec.name)) = 1
         /\ Occurs(content, <<"<h4>", GenericHeading(sec.name), "</h4>">>)
         /\ Occurs(content, <<"<p>">> \o BodyOf(sec) \o <<"</p>">>)

\* Section i of d is the first of its name, is a known one, and its body is
\* plain text: no recognized sub-item at all.
PlainKnownSection(d, i) ==
    /\ d.secs[i].name \in KnownSections
    /\ \A k \in SectionsNamed(d, d.secs[i].name) : i <= k
    /\ d.secs[i].items # <<>>
    /\ AllItems(d.secs[i], "text")

\* C9: for any of the four known sections whose body holds no recognized
\* sub-item, the output holds exactly one wrapper block for the section and
\* the block holds the whole stripped body.  Stated for pages that start with
\* front matter, title heading and description paragraph.
C9_FallbackWrapsBody ==
    (runs = 1 /\ WellHeaded(doc) /\ doc.lead = "none")
    => \A i \in 1..Len(doc.secs) :
          PlainKnownSection(doc, i) => WrapsWholeBody(doc.secs[i])

(***************************************************************************)
(* The priority order of the sub-item patterns.                            *)
(***************************************************************************)
\* The body the function takes for the section called name of the page it
\* read; <<>> when the section is not found.
TakenBody(name) ==
    LET s == StageText(orig, name)
        m == section_match(s, name)
    IN  IF m.start = 0 THEN <<>> ELSE section_content(s, m)

SectionFound(name) == section_match(StageText(orig, name), name).start # 0

\* How many sub-items the strict and the looser pattern of a section find.
StrictMatches(name, body) ==
    CASE name = "Best Practices" -> Len(practices(body))
      [] name = "Implementation Guidance" -> Len(bold_steps(body))
      [] name = "AWS Services to Consider" -> Len(bold_services(body))
      [] name = "Related Resources" -> Len(links(body))

LooseMatches(name, body) ==
    CASE name = "Best Practices" -> 0
      [] name = "Implementation Guidance" -> Len(numbered_steps(body))
      [] name = "AWS Services to Consider" -> Len(list_items(body))
      [] name = "Related Resources" -> Len(list_items(body))

\* The wrappers of a section in a text: the last-resort ones, the ones of the
\* looser pattern, and all of them.
LastWrappers(name, text) ==
    CASE name = "Best Practices" -> Count(text, <<"<h4>", "Best Practice", "</h4>">>)
      [] name = "Implementation Guidance" ->
            Count(text, <<"<h4>", "Implementation Guidance", "</h4>">>)
      [] name = "AWS Services to Consider" ->
            Count(text, <<"<p>", "Add relevant AWS services for this question.", "</p>">>)
      [] name = "Related Resources" ->
            Count(text, <<"<li>", "Add related resources for this question.", "</li>">>)

LooseWrappers(name, text) ==
    CASE name = "Best Practices" -> 0
      [] name = "Implementation Guidance" -> Count(text, <<"<h4>", "Step", SP>>)
      [] name = "AWS Services to Consider" ->
            Count(text, <<"<p>", "AWS service for this question.", "</p>">>)
      [] name = "Related Resources" ->
            Count(text, <<"<li>">>) - LastWrappers(name, text)

Wrappers(name, text) ==
    IF name = "Related Resources"
    THEN Count(text, <<"<li><a href=\"">>) + Count(text, <<"<li>">>)
    ELSE Count(text, WrapperOpen(name))

\* The wrappers of the section called name all come from the first of its
\* patterns that finds a sub-item in the body.
FirstMatchingPatternOnly(name, body, text) ==
    IF StrictMatches(name, body) > 0
    THEN /\ Wrappers(name, text) = StrictMatches(name, body)
         /\ LooseWrappers(name, text) = 0
         /\ LastWrappers(name, text) = 0
    ELSE IF LooseMatches(name, body) > 0
    THEN /\ Wrappers(name, text) = LooseMatches(name, body)
         /\ LooseWrappers(name, text) = LooseMatches(name, body)
         /\ LastWrappers(name, text) = 0
    ELSE /\ Wrappers(name, text) = 1
         /\ LooseWrappers(name, text) = 0
         /\ LastWrappers(name, text) = 1

\* C11: for each known section the patterns are tried in priority order
\* (strict, looser, last resort); a later pattern is applied only when every
\* earlier one found no sub-item in the section body, and the wrappers in
\* the output all come from the first pattern that found one.  Stated for
\* the body the function takes, on pages whose sections all have a body and
\* a name of their own.
C11_PatternPriority ==
    (runs = 1 /\ doc.fm = "fm" /\ HasIdHeading(doc)
       /\ \A i \in 1..Len(doc.secs) :
             doc.secs[i].items # <<>> /\ SectionsNamed(doc, doc.secs[i].name) = {i})
    => \A name \in KnownSections :
          SectionFound(name)
          => FirstMatchingPatternOnly(name, TakenBody(name), content)

\* A styled page whose Implementation Guidance, AWS Services or Related
\* Resources body holds a sub-item of the looser pattern before one of the
\* strict pattern.
C11_Witness ==
    /\ runs = 1 /\ WellHeaded(doc) /\ Len(doc.secs) = 1
    /\ doc.secs[1].name \in KnownSections \ {"Best Practices"}
    /\ Len(doc.secs[1].items) = 2
    /\ doc.secs[1].items[1] \in {"step", "bullet"}
    /\ doc.secs[1].items[2] = StructuredKind(doc.secs[1].name)
    /\ SectionFound(doc.secs[1].name)
    /\ StrictMatches(doc.secs[1].name, TakenBody(doc.secs[1].name)) = 1
    /\ LooseMatches(doc.secs[1].name, TakenBody(doc.secs[1].name)) >= 1
    /\ Wrappers(doc.secs[1].name, content) = 1

(***************************************************************************)
(* The description of the pillar-header.                                   *)
(***************************************************************************)
\* The paragraph of the pillar-header of a text holds the words d.
HeaderDescription(text, d) ==
    Occurs(text, <<"</h1>", NL, SP, SP, "<p>">> \o d \o <<"</p>", NL, "</div>">>)

\* The page holds no paragraph after its title heading: no description and
\* no item in any section.
NoParagraph(d) ==
    d.desc = "none" /\ \A i \in 1..Len(d.secs) : d.secs[i].items = <<>>

\* C12: the description in the pillar-header is the first paragraph that
\* follows the title heading; when no paragraph follows the heading it is
\* the fixed default sentence.
C12_DescriptionIsFirstParagraph ==
    (runs = 1 /\ doc.fm = "fm" /\ doc.title = "h1" /\ doc.lead = "none")
    => /\ doc.desc = "para" => HeaderDescription(content, <<"Para">>)
       /\ NoParagraph(doc) => HeaderDescription(content, DefaultDescription)

(***************************************************************************)
(* The link-fixing scripts: fix_all_pillar_links.py and                    *)
(* fix_relative_links.py.  A file is a sequence of tokens as before.  The  *)
(* tokens the patterns name are href=" ./ an upper-case run, a digit run,  *)
(* -BP .html and the closing quote; line ends are \n, \r\n or \r.          *)
(***************************************************************************)
\* Links and text lines of one file.
MaxLinks == 2

HREF == "href=\""
QUOTE == "\""
DOT == "./"
BP == "-BP"
HTML == ".html"
CRLF == "\r\n"
CR == "\r"

\* [A-Z]+ and \d+ over the tokens of a link.
IsUpper(t) == t \in {"SEC", "REL"}
IsNumber(t) == IsDigits(t) \/ t \in {"01", "02"}

\* The token at position i, "" outside the text.
At(s, i) == IF i \in 1..Len(s) THEN s[i] ELSE ""

\* The position after the run of [A-Z] tokens, of \d tokens, that starts at i.
RECURSIVE UpperEnd(_, _)
UpperEnd(s, i) == IF IsUpper(At(s, i)) THEN UpperEnd(s, i + 1) ELSE i

RECURSIVE NumberEnd(_, _)
NumberEnd(s, i) == IF IsNumber(At(s, i)) THEN NumberEnd(s, i + 1) ELSE i

\* (?:-BP\d+)? at position i: the position after it.
BpEnd(s, i) ==
    IF At(s, i) = BP /\ NumberEnd(s, i + 1) > i + 1 THEN NumberEnd(s, i + 1) ELSE i

\* open(file_path, 'r').read(): universal newlines, \r\n and \r read as \n.
\* A \n right after a \r is read together with it.
read(bytes) ==
    LET newline(t) == IF t \in {CRLF, CR} THEN NL ELSE t
        kept == {i \in 1..Len(bytes) : ~(bytes[i] = NL /\ At(bytes, i - 1) = CR)}
        nth(k) == CHOOSE i \in kept : Cardinality({j \in kept : j < i}) = k - 1
    IN  IF Cardinality(kept) = Len(bytes)
        THEN [k \in 1..Len(bytes) |-> newline(bytes[k])]
        ELSE [k \in 1..Cardinality(kept) |-> newline(bytes[nth(k)])]

\* open(file_path, 'w').write(text): \n is written as os.linesep, which is
\* \n where the scripts are run.
linesep == NL
write(text) == [i \in 1..Len(text) |-> IF text[i] = NL THEN linesep ELSE text[i]]

\* r'href="(\./[A-Z]+\d+(?:-BP\d+)?)"' matches at i: the position of the
\* closing quote, 0 if it does not match.
pillar_link_at(s, i) ==
    LET u == UpperEnd(s, i + 2)
        n == NumberEnd(s, u)
        e == BpEnd(s, n)
    IN  IF /\ At(s, i) = HREF /\ At(s, i + 1) = DOT
           /\ u > i + 2 /\ n > u /\ At(s, e) = QUOTE
        THEN e ELSE 0

\* re.sub(pattern, replace_link, content) of fix_pillar_links, from pos:
\* link[2:] + '.html' between href=" and the quote.
RECURSIVE pillar_links_sub(_, _)
pillar_links_sub(s, pos) ==
    IF pos > Len(s) THEN <<>>
    ELSE LET e == pillar_link_at(s, pos)
         IN  IF e = 0 THEN <<s[pos]>> \o pillar_links_sub(s, pos + 1)
             ELSE <<HREF>> \o Slice(s, pos + 2, e - 1) \o <<HTML, QUOTE>>
                  \o pillar_links_sub(s, e + 1)

pillar_index_link_at_dotted(s, i, pillar_name) ==
    LET d == IF At(s, i + 1) = DOT THEN 1 ELSE 0
        n == NumberEnd(s, i + d + 2)
        e == BpEnd(s, n)
    IN  IF /\ At(s, i) = HREF /\ At(s, i + d + 1) = pillar_name
           /\ n > i + d + 2 /\ At(s, e) = HTML /\ At(s, e + 1) = QUOTE
        THEN e + 1 ELSE 0

\* rf'href="({pillar_name}\d+(?:-BP\d+)?\.html)"' matches at i.
pillar_index_link_at(s, i, pillar_name) ==
    LET n == NumberEnd(s, i + 2)
        e == BpEnd(s, n)
    IN  IF /\ At(s, i) = HREF /\ At(s, i + 1) = pillar_name
           /\ n > i + 2 /\ At(s, e) = HTML /\ At(s, e + 1) = QUOTE
        THEN e + 1 ELSE 0

\* re.sub(pattern, replace_link, content) of fix_pillar_index_links:
\* './' + link between href=" and the quote.
RECURSIVE pillar_index_links_sub(_, _, _)
pillar_index_links_sub(s, pos, pillar_name) ==
    IF pos > Len(s) THEN <<>>
    ELSE LET e == pillar_index_link_at(s, pos, pillar_name)
         IN  IF e = 0
             THEN <<s[pos]>> \o pillar_index_links_sub(s, pos + 1, pillar_name)
             ELSE <<HREF, DOT>> \o Slice(s, pos + 1, e - 1) \o <<QUOTE>>
                  \o pillar_index_links_sub(s, e + 1, pillar_name)

(***************************************************************************)
(* The file the link scripts work on.  doc is what the author wrote: the   *)
(* line end of the file and its lines, each a link or plain text; content  *)
(* is the file on disk, orig the file before the last call, runs the       *)
(* number of calls and pc the function called last.                        *)
(***************************************************************************)
LineEnds == {NL, CRLF, CR}
Prefixes == {"SEC", "REL", "sec"}

\* A line with a link: href=" [./] <prefix>01 [-BP01] [.html] ".
LinkLines ==
    [dot : BOOLEAN, id : Prefixes, bp : BOOLEAN, html : BOOLEAN]
TextLine == [dot |-> FALSE, id |-> "text", bp |-> FALSE, html |-> FALSE]
Lines == LinkLines \cup {TextLine}

LineText(l) ==
    IF l = TextLine THEN <<"See the questions below.">>
    ELSE <<"<a ", HREF>> \o (IF l.dot THEN <<DOT>> ELSE <<>>)
         \o <<l.id, "01">> \o (IF l.bp THEN <<BP, "01">> ELSE <<>>)
         \o (IF l.html THEN <<HTML>> ELSE <<>>)
         \o <<QUOTE, ">View details</a>">>

RECURSIVE LinesText(_, _)
LinesText(ls, eol) ==
    IF ls = <<>> THEN <<>>
    ELSE LineText(Head(ls)) \o <<eol>> \o LinesText(Tail(ls), eol)

RenderFile(d) == LinesText(d.lines, d.eol)

LinkInit ==
    /\ doc \in [eol : LineEnds, lines : {<<>>}]
    /\ content = RenderFile(doc)
    /\ orig = content
    /\ runs = 0
    /\ pc = "idle"
    /\ fs = <<>> /\ out = <<>> /\ ecr = <<>> /\ web = <<>>

\* The author appends a line to the file.
WriteLine(l) ==
    /\ runs = 0
    /\ Len(doc.lines) < MaxLinks
    /\ doc' = [doc EXCEPT !.lines = Append(@, l)]
    /\ content' = RenderFile(doc')
    /\ orig' = content'
    /\ UNCHANGED <<runs, pc, fs, out, ecr, web>>

\* fix_pillar_links(file_path): read, substitute, write back if changed.
fix_pillar_links ==
    /\ runs < MaxRuns
    /\ LET text == read(content)
           updated_content == pillar_links_sub(text, 1)
       IN  /\ content' = IF text # updated_content THEN write(updated_content)
                         ELSE content
           /\ out' = IF text # updated_content THEN Append(out, "Fixed links in")
                     ELSE out
    /\ orig' = content
    /\ runs' = runs + 1
    /\ pc' = "fix_pillar_links"
    /\ UNCHANGED <<doc, fs, ecr, web>>

\* fix_pillar_index_links(file_path, pillar_name).
fix_pillar_index_links(pillar_name) ==
    /\ runs < MaxRuns
    /\ LET text == read(content)
           updated_content == pillar_index_links_sub(text, 1, pillar_name)
       IN  /\ content' = IF text # updated_content THEN write(updated_content)
                         ELSE content
           /\ out' = IF text # updated_content
                     THEN Append(out, "Fixed relative links in") ELSE out
    /\ orig' = content
    /\ runs' = runs + 1
    /\ pc' = pillar_name
    /\ UNCHANGED <<doc, fs, ecr, web>>

LinkNext ==
    \/ \E l \in Lines : WriteLine(l)
    \/ fix_pillar_links
    \/ \E pillar_name \in {"SEC", "REL"} : fix_pillar_index_links(pillar_name)

LinkSpec == LinkInit /\ [][LinkNext]_vars

\* The file written with the lines ls and the line end of d.
FileWith(d, ls) == LinesText(ls, d.eol)

\* What fix_pillar_links is to make of a line: ./<ID> and ./<ID>-BP<nn>
\* with an upper-case ID become <ID>.html and <ID>-BP<nn>.html.
PillarLinkFixed(l) ==
    IF l # TextLine /\ l.dot /\ IsUpper(l.id) /\ ~l.html
    THEN [l EXCEPT !.dot = FALSE, !.html = TRUE] ELSE l

\* What fix_pillar_index_links is to make of a line: <PREFIX><nn>.html and
\* <PREFIX><nn>-BP<nn>.html of the pillar get ./ in front.
IndexLinkFixed(l, pillar_name) ==
    IF l # TextLine /\ ~l.dot /\ l.id = pillar_name /\ l.html
    THEN [l EXCEPT !.dot = TRUE] ELSE l

\* C13: fix_pillar_links rewrites every href="./<ID>" and
\* href="./<ID>-BP<nn>" to href="<ID>.html" and href="<ID>-BP<nn>.html" and
\* changes no other character of the file.
C13_PillarLinksOnly ==
    (runs = 1 /\ pc = "fix_pillar_links")
    => content = FileWith(doc, [i \in 1..Len(doc.lines) |->
                                   PillarLinkFixed(doc.lines[i])])

\* C14: fix_pillar_index_links rewrites every href="<PREFIX><nn>.html" and
\* href="<PREFIX><nn>-BP<nn>.html" of the pillar to the same target with ./
\* in front, leaves links of another pillar and links that start with ./
\* as they are, and changes no other character of the file.
C14_IndexLinksOnly ==
    (runs = 1 /\ pc \in {"SEC", "REL"})
    => content = FileWith(doc, [i \in 1..Len(doc.lines) |->
                                   IndexLinkFixed(doc.lines[i], pc)])

(***************************************************************************)
(* Docs/dr-plan/pdf/ecr-replication.py: every tagged image of a repository *)
(* is put again under a temporary tag, its tag deleted, put again under    *)
(* its tag, and the temporary tag deleted.                                 *)
(*   ecr  the tags of the repository: a function tag -> manifest over the  *)
(*        tags that exist; a tag is a sequence of name parts               *)
(*   pc   [at, todo, imageTag, imageManifest]: the call the script is      *)
(*        about to make, the images still to do, and the image in hand;    *)
(*        at = "stopped" after the run broke off, before the call 'before' *)
(*   orig the tags of the repository before the run                        *)
(***************************************************************************)
Manifests == {"mA", "mB"}
TagNames == {<<"v1">>, <<"v1", "-temp">>, <<"v2">>}

\* tempTag = imageTag + "-temp"
tempTag(imageTag) == imageTag \o <<"-temp">>

\* ecr.put_image(imageManifest, imageTag): the tag now names the manifest.
put_image(reg, imageManifest, imageTag) ==
    [t \in DOMAIN reg \cup {imageTag} |->
        IF t = imageTag THEN imageManifest ELSE reg[t]]

\* put_image raises ImageAlreadyExistsException when the tag names this
\* manifest already.
put_image_raises(reg, imageManifest, imageTag) ==
    imageTag \in DOMAIN reg /\ reg[imageTag] = imageManifest

\* ecr.batch_delete_image(imageIds=[{imageTag}]): the tag is gone.
batch_delete_image(reg, imageTag) ==
    [t \in DOMAIN reg \ {imageTag} |-> reg[t]]

\* The orders in which list_images may return the tags of S.
RECURSIVE Orders(_)
Orders(S) ==
    IF S = {} THEN {<<>>}
    ELSE UNION {{<<t>> \o o : o \in Orders(S \ {t})} : t \in S}

EcrInit ==
    /\ \E T \in SUBSET TagNames : ecr \in [T -> Manifests]
    /\ pc = [at |-> "list_images", todo |-> <<>>, before |-> "none",
             imageTag |-> <<>>, imageManifest |-> "none"]
    /\ orig = ecr
    /\ out = <<>>
    /\ fs = <<>> /\ web = <<>>
    /\ doc = <<>> /\ content = <<>> /\ runs = 0

\* imagesList = ecr.list_images(..., filter TAGGED)
list_images ==
    /\ pc.at = "list_images"
    /\ \E o \in Orders(DOMAIN ecr) :
          pc' = [pc EXCEPT !.at = "batch_get_image", !.todo = o]
    /\ UNCHANGED <<ecr, out, fs, web, pagevars>>

\* imageData = ecr.batch_get_image(imageTag); no image comes back for a tag
\* that is gone, and the script goes on with the next one.
batch_get_image ==
    /\ pc.at = "batch_get_image"
    /\ IF pc.todo = <<>>
       THEN pc' = [pc EXCEPT !.at = "done"] /\ UNCHANGED out
       ELSE /\ out' = Append(out, "reuploading")
            /\ IF Head(pc.todo) \in DOMAIN ecr
               THEN pc' = [pc EXCEPT !.at = "put_temp",
                                     !.imageTag = Head(pc.todo),
                                     !.imageManifest = ecr[Head(pc.todo)]]
               ELSE pc' = [pc EXCEPT !.todo = Tail(pc.todo)]
    /\ UNCHANGED <<ecr, fs, web, pagevars>>

\* put_temp with the call left out: the script goes on to delete the tag.
put_temp_skipped ==
    /\ pc.at = "put_temp"
    /\ pc' = [pc EXCEPT !.at = "delete_tag"]
    /\ UNCHANGED <<ecr, out, fs, web, pagevars>>

\* ecr.put_image(imageManifest, tempTag)
put_temp ==
    /\ pc.at = "put_temp"
    /\ IF put_image_raises(ecr, pc.imageManifest, tempTag(pc.imageTag))
       THEN pc' = [pc EXCEPT !.at = "stopped", !.before = "put_temp"]
            /\ UNCHANGED ecr
       ELSE /\ ecr' = put_image(ecr, pc.imageManifest, tempTag(pc.imageTag))
            /\ pc' = [pc EXCEPT !.at = "delete_tag"]
    /\ UNCHANGED <<out, fs, web, pagevars>>

\* delete_tag deleting the temporary tag along with the tag.
delete_tag_and_temp ==
    /\ pc.at = "delete_tag"
    /\ ecr' = batch_delete_image(batch_delete_image(ecr, pc.imageTag),
                                 tempTag(pc.imageTag))
    /\ pc' = [pc EXCEPT !.at = "put_tag"]
    /\ UNCHANGED <<out, fs, web, pagevars>>

\* ecr.batch_delete_image(imageTag)
delete_tag ==
    /\ pc.at = "delete_tag"
    /\ ecr' = batch_delete_image(ecr, pc.imageTag)
    /\ pc' = [pc EXCEPT !.at = "put_tag"]
    /\ UNCHANGED <<out, fs, web, pagevars>>

\* ecr.put_image(imageManifest, imageTag)
put_tag ==
    /\ pc.at = "put_tag"
    /\ IF put_image_raises(ecr, pc.imageManifest, pc.imageTag)
       THEN pc' = [pc EXCEPT !.at = "stopped", !.before = "put_tag"]
            /\ UNCHANGED ecr
       ELSE /\ ecr' = put_image(ecr, pc.imageManifest, pc.imageTag)
            /\ pc' = [pc EXCEPT !.at = "delete_temp"]
    /\ UNCHANGED <<out, fs, web, pagevars>>

\* ecr.batch_delete_image(tempTag); print("OK"); next image.
delete_temp ==
    /\ pc.at = "delete_temp"
    /\ ecr' = batch_delete_image(ecr, tempTag(pc.imageTag))
    /\ pc' = [pc EXCEPT !.at = "batch_get_image", !.todo = Tail(pc.todo),
                         !.imageTag = <<>>, !.imageManifest = "none"]
    /\ out' = Append(out, "OK")
    /\ UNCHANGED <<fs, web, pagevars>>

\* The run breaks off between two calls: the process is killed, or the
\* next call raises (network, credentials, throttling).
stop ==
    /\ pc.at \in {"put_temp", "delete_tag", "put_tag", "delete_temp"}
    /\ pc' = [pc EXCEPT !.at = "stopped", !.before = pc.at]
    /\ UNCHANGED <<ecr, out, fs, web, pagevars>>

EcrNext ==
    \/ list_images
    \/ batch_get_image
    \/ put_temp
    \/ delete_tag
    \/ put_tag
    \/ delete_temp
    \/ stop

EcrSpec == EcrInit /\ [][EcrNext]_vars

\* The tags of the registry that name the manifest.
TagsOf(reg, imageManifest) == {t \in DOMAIN reg : reg[t] = imageManifest}

\* The run broke off while an image was in hand, before the call c.
StoppedBefore(c) == pc.at = "stopped" /\ pc.before = c

\* C15 as claimed: a run that stops between the calls of an image can leave
\* the manifest of the image with no tag at all, neither its tag nor the
\* temporary one; that is, a run that stops after the tag was deleted and
\* before it is put again leaves the manifest without a tag.
C15_StopLeavesUntagged ==
    StoppedBefore("put_tag") => TagsOf(ecr, pc.imageManifest) = {}

\* C15 as amended: wherever the run stops between the calls of an image, the
\* manifest is still named by the tag of the image or by the temporary tag.
\* After the first delete it is named by the temporary tag and the tag of
\* the image is gone; the script has no call that puts it back after a stop.
C15_StopKeepsATag ==
    /\ pc.at = "stopped" /\ pc.before \in {"delete_tag", "put_tag", "delete_temp"}
         => {pc.imageTag, tempTag(pc.imageTag)} \cap TagsOf(ecr, pc.imageManifest) # {}
    /\ StoppedBefore("put_tag")
         => /\ tempTag(pc.imageTag) \in TagsOf(ecr, pc.imageManifest)
            /\ pc.imageTag \notin DOMAIN ecr

\* A run that stopped after the tag of an image was deleted: the manifest is
\* left under the temporary tag only.
C15_Witness ==
    /\ StoppedBefore("put_tag")
    /\ TagsOf(ecr, pc.imageManifest) = {tempTag(pc.imageTag)}

(***************************************************************************)
(* generate_wafr_pages.py: the questions are fetched from the appendix     *)
(* page of the documentation site and one file is written per question.    *)
(*   web  [ok, page]: ok is false when the request fails (requests.get or  *)
(*        raise_for_status raises); page is the h2 elements in document    *)
(*        order, each with the variablelist div that follows it, if any,   *)
(*        and the text of the dt elements of the div                       *)
(*   pc   [at, questions_by_pillar, pillars, todo, status]                 *)
(*   fs   the question files: <<directory, identifier>> -> content         *)
(***************************************************************************)
\* h2 elements of the fetched page.
MaxSections == 2

\* PILLARS.keys(), two of the six.
PillarNames == <<"Security", "Reliability">>
PillarSet == {PillarNames[i] : i \in 1..Len(PillarNames)}

\* pillar.lower().replace(' ', '-')
pillar_dir(pillar) ==
    CASE pillar = "Security" -> "security"
      [] pillar = "Reliability" -> "reliability"

H2Texts == PillarSet \cup {"Notices"}
DtTexts ==
    { <<"SEC01", ":", SP, "Title">>, <<"SEC02", ":", "Title">>, <<"Definitions">> }
DtLists == {<<>>} \cup {<<t>> : t \in DtTexts}
Sections == [h2 : H2Texts, div : {TRUE}, dts : DtLists]
            \cup [h2 : H2Texts, div : {FALSE}, dts : {<<>>}]

RECURSIVE Pages(_)
Pages(n) ==
    IF n = 0 THEN {<<>>}
    ELSE Pages(n - 1) \cup {Append(p, x) : p \in Pages(n - 1), x \in Sections}

\* None, and what is false like it: the empty dict.
None == <<>>

\* re.match(r'([A-Z]+\d+):\s+(.*)', question_text): the question, or
\* None when the text does not match.
question_match(dt) ==
    IF IsId(At(dt, 1)) /\ At(dt, 2) = ":" /\ IsSpace(At(dt, 3))
    THEN [id |-> dt[1],
          title |-> LET from == SkipSpace(dt, 3)
                        nl == FindLit(dt, from, <<NL>>)
                    IN  Slice(dt, from, IF nl = 0 THEN Len(dt) ELSE nl - 1)]
    ELSE None

\* The questions of the dt elements of a div, in order.
RECURSIVE questions_of(_)
questions_of(dts) ==
    IF dts = <<>> THEN <<>>
    ELSE (IF question_match(Head(dts)) = None THEN <<>>
          ELSE <<question_match(Head(dts))>>)
         \o questions_of(Tail(dts))

\* h2.find_next('div', class_='variablelist'): the first div at or after
\* the h2 element k, 0 if there is none.
find_next(page, k) == Least({j \in k..Len(page) : page[j].div})

\* The loop over the h2 elements, from element k.
RECURSIVE parse_from(_, _, _, _)
parse_from(page, k, current_pillar, questions_by_pillar) ==
    IF k > Len(page) THEN questions_by_pillar
    ELSE LET pillar == IF page[k].h2 \in PillarSet THEN page[k].h2
                       ELSE current_pillar
             j == find_next(page, k)
         IN  parse_from(page, k + 1, pillar,
                 IF pillar # "none" /\ j # 0
                 THEN [questions_by_pillar EXCEPT
                          ![pillar] = @ \o questions_of(page[j].dts)]
                 ELSE questions_by_pillar)

\* fetch_wafr_questions(): None after an exception.
fetch_wafr_questions(w) ==
    IF ~w.ok THEN None
    ELSE parse_from(w.page, 1, "none", [p \in PillarSet |-> <<>>])

\* enumerate(questions, 1)
numbered(questions) ==
    [i \in 1..Len(questions) |-> [question |-> questions[i], question_number |-> i]]

\* The content of the file of a question.
question_page(pillar, question, question_number) ==
    [title |-> question.title, id |-> question.id, parent |-> pillar,
     nav_order |-> question_number]

\* open(file_path, 'w').write(content)
write_file(files, path, text) ==
    [q \in DOMAIN files \cup {path} |-> IF q = path THEN text ELSE files[q]]

FetchInit ==
    /\ web \in [ok : {FALSE}, page : {<<>>}]
               \cup [ok : {TRUE}, page : Pages(MaxSections)]
    /\ pc = [at |-> "main", questions_by_pillar |-> None, pillars |-> <<>>,
             todo |-> <<>>, pillar |-> "none", status |-> "running"]
    /\ fs = <<>>
    /\ out = <<>>
    /\ ecr = <<>>
    /\ NoPage

\* main: questions_by_pillar = fetch_wafr_questions()
main_fetch ==
    /\ pc.at = "main"
    /\ pc' = [pc EXCEPT !.at = "check",
                        !.questions_by_pillar = fetch_wafr_questions(web)]
    /\ out' = out \o <<"Fetching AWS Well-Architected Framework questions...">>
              \o (IF ~web.ok THEN <<"Error fetching WAFR questions">>
                  ELSE <<>>)
    /\ UNCHANGED <<fs, web, ecr, pagevars>>

\* main: if not questions_by_pillar: print, sys.exit(1).  A dict with the
\* pillars as keys is true whatever its lists hold.
main_failed ==
    /\ pc.at = "check"
    /\ pc.questions_by_pillar = None
    /\ out' = Append(out, "Failed to fetch questions. Exiting.")
    /\ pc' = [pc EXCEPT !.at = "exit", !.status = 1]
    /\ UNCHANGED <<fs, web, ecr, pagevars>>

main_generate ==
    /\ pc.at = "check"
    /\ pc.questions_by_pillar # None
    /\ out' = Append(out, "Generating Markdown files for each question...")
    /\ pc' = [pc EXCEPT !.at = "pillars", !.pillars = PillarNames]
    /\ UNCHANGED <<fs, web, ecr, pagevars>>

\* for pillar, questions in questions_by_pillar.items(): print
process_pillar ==
    /\ pc.at = "pillars"
    /\ pc.todo = <<>>
    /\ pc.pillars # <<>>
    /\ out' = Append(out, "Processing pillar")
    /\ pc' = [pc EXCEPT !.pillars = Tail(pc.pillars),
                        !.pillar = Head(pc.pillars),
                        !.todo = numbered(pc.questions_by_pillar[Head(pc.pillars)])]
    /\ UNCHANGED <<fs, web, ecr, pagevars>>

\* generate_question_file(pillar, question, i)
generate_question_file ==
    /\ pc.at = "pillars"
    /\ pc.todo # <<>>
    /\ LET q == Head(pc.todo)
       IN  fs' = write_file(fs, <<pillar_dir(pc.pillar), q.question.id>>,
                            question_page(pc.pillar, q.question, q.question_number))
    /\ out' = Append(out, "Generated file")
    /\ pc' = [pc EXCEPT !.todo = Tail(pc.todo)]
    /\ UNCHANGED <<web, ecr, pagevars>>

\* main: print("Done! ..."), and the script ends with status 0.
main_done ==
    /\ pc.at = "pillars"
    /\ pc.todo = <<>>
    /\ pc.pillars = <<>>
    /\ out' = Append(out, "Done! All question files have been generated.")
    /\ pc' = [pc EXCEPT !.at = "exit", !.status = 0]
    /\ UNCHANGED <<fs, web, ecr, pagevars>>

FetchNext ==
    \/ main_fetch
    \/ main_failed
    \/ main_generate
    \/ process_pillar
    \/ generate_question_file
    \/ main_done

FetchSpec == FetchInit /\ [][FetchNext]_vars

\* A line of out reports an error.
ErrorLogged ==
    \E i \in 1..Len(out) :
        out[i] \in {"Error fetching WAFR questions",
                    "Failed to fetch questions. Exiting."}

\* The page was fetched but no identifier/title pair was parsed from it.
NoPairParsed ==
    /\ pc.questions_by_pillar # None
    /\ \A p \in PillarSet : pc.questions_by_pillar[p] = <<>>

\* C16: whenever fetching the appendix page fails or the page cannot be
\* parsed into any identifier/title pair, the script logs an error, writes
\* no question file and exits with a non-zero status.
C16_FetchOrParseFailureAborts ==
    (pc.at = "exit" /\ (~web.ok \/ NoPairParsed))
    => ErrorLogged /\ fs = <<>> /\ pc.status # 0

(***************************************************************************)
(* The loops over the pillar directories: main of apply_styling.py, main   *)
(* of fix_security_links.py and compare_with_hardcoded of                  *)
(* verify_wafr_questions.py.                                               *)
(*   fs   the directories under ./docs that exist: directory -> "dir";     *)
(*        they hold no file                                                *)
(*   web  for verify_wafr_questions, what fetch_wafr_questions makes of    *)
(*        the appendix page: [ok, pillars], ok false when the request      *)
(*        raised, pillars the pillar names cut from the h2 headings        *)
(*   pc   [script, at, pillars, status]: the script that runs, the pillar  *)
(*        directories it still has to visit, and how it ended              *)
(*   out  the lines printed: [line, pillar]                                *)
(***************************************************************************)
\* The pillar directories, four of the six.
PillarDirs ==
    <<"operational-excellence", "security", "reliability", "performance-efficiency">>
PillarDirSet == {PillarDirs[i] : i \in 1..Len(PillarDirs)}

DirScripts == {"apply_styling", "fix_security_links", "verify_wafr_questions"}

\* The directories the main loop of a script visits, in order.
pillars_of(script) ==
    IF script = "fix_security_links" THEN <<"security">> ELSE PillarDirs

\* pillar_mapping of compare_with_hardcoded, read from the directory name
\* to the pillar name of the AWS page.
pillar_mapping ==
    [d \in PillarDirSet |->
        CASE d = "operational-excellence" -> "Operational excellence"
          [] d = "security" -> "Security"
          [] d = "reliability" -> "Reliability"
          [] d = "performance-efficiency" -> "Performance efficiency"]

AwsPillars == {pillar_mapping[d] : d \in PillarDirSet}

\* not aws_questions: fetch_wafr_questions returned None because the
\* request raised, or a dictionary without a pillar.
no_aws_questions(page) == ~page.ok \/ page.pillars = {}

\* os.path.isdir(pillar_dir)
isdir(files, dir) == dir \in DOMAIN files /\ files[dir] = "dir"

DirInit ==
    /\ \E D \in SUBSET PillarDirSet : fs = [d \in D |-> "dir"]
    /\ \E script \in DirScripts :
          /\ pc = [script |-> script,
                   at |-> IF script = "verify_wafr_questions" THEN "fetch" ELSE "loop",
                   pillars |-> pillars_of(script), status |-> "running"]
          /\ IF script = "verify_wafr_questions"
             THEN web \in {[ok |-> FALSE, pillars |-> {}]}
                          \cup [ok : {TRUE}, pillars : SUBSET AwsPillars]
             ELSE web = <<>>
    /\ out = <<>>
    /\ ecr = <<>>
    /\ NoPage

\* apply_styling.main, one pillar: if os.path.isdir(pillar_dir): print,
\* process_directory; nothing otherwise.
apply_styling_main ==
    /\ pc.script = "apply_styling" /\ pc.at = "loop" /\ pc.pillars # <<>>
    /\ out' = IF isdir(fs, Head(pc.pillars))
              THEN Append(out, [line |-> "Processing pillar", pillar |-> Head(pc.pillars)])
              ELSE out
    /\ pc' = [pc EXCEPT !.pillars = Tail(pc.pillars)]
    /\ UNCHANGED <<fs, ecr, web, pagevars>>

\* fix_security_links.main: os.listdir(security_dir) raises
\* FileNotFoundError when the directory is missing.
fix_security_links_main ==
    /\ pc.script = "fix_security_links" /\ pc.at = "loop" /\ pc.pillars # <<>>
    /\ IF isdir(fs, Head(pc.pillars))
       THEN /\ out' = Append(out, [line |-> "Updated 0 files", pillar |-> Head(pc.pillars)])
            /\ pc' = [pc EXCEPT !.pillars = Tail(pc.pillars)]
       ELSE /\ out' = Append(out, [line |-> "FileNotFoundError", pillar |-> Head(pc.pillars)])
            /\ pc' = [pc EXCEPT !.at = "exit", !.status = "raised"]
    /\ UNCHANGED <<fs, ecr, web, pagevars>>

\* compare_with_hardcoded up to its loop: without questions (the fetch
\* failed, or the page had no pillar heading) it prints that and returns.
compare_with_hardcoded_fetch ==
    /\ pc.script = "verify_wafr_questions" /\ pc.at = "fetch"
    /\ IF no_aws_questions(web)
       THEN /\ out' = Append(out, [line |-> "Failed to fetch questions from AWS. Exiting.",
                                   pillar |-> "none"])
            /\ pc' = [pc EXCEPT !.at = "exit", !.status = "done"]
       ELSE /\ out' = Append(out, [line |-> "Checking local files...", pillar |-> "none"])
            /\ pc' = [pc EXCEPT !.at = "loop"]
    /\ UNCHANGED <<fs, ecr, web, pagevars>>

\* compare_with_hardcoded, one pillar: a warning and continue when the
\* pillar is not among the fetched ones, a warning and continue when the
\* directory is missing, the counts of the pillar otherwise.
compare_with_hardcoded ==
    /\ pc.script = "verify_wafr_questions" /\ pc.at = "loop" /\ pc.pillars # <<>>
    /\ LET dir_name == Head(pc.pillars)
           aws_pillar == pillar_mapping[dir_name]
       IN  out' = Append(out,
                     [line |-> IF aws_pillar \notin web.pillars
                               THEN "Warning: Pillar not found in AWS documentation"
                               ELSE IF ~isdir(fs, dir_name)
                               THEN "Warning: Directory does not exist"
                               ELSE "local files",
                      pillar |-> dir_name])
    /\ pc' = [pc EXCEPT !.pillars = Tail(pc.pillars)]
    /\ UNCHANGED <<fs, ecr, web, pagevars>>

\* The loop is over and the script ends.
loop_done ==
    /\ pc.at = "loop" /\ pc.pillars = <<>>
    /\ pc' = [pc EXCEPT !.at = "exit", !.status = "done"]
    /\ UNCHANGED <<fs, out, ecr, web, pagevars>>

DirNext ==
    \/ apply_styling_main
    \/ fix_security_links_main
    \/ compare_with_hardcoded_fetch
    \/ compare_with_hardcoded
    \/ loop_done

DirSpec == DirInit /\ [][DirNext]_vars

\* A warning was printed for the directory.
WarnedAbout(dir) ==
    \E i \in 1..Len(out) :
        out[i].pillar = dir /\ out[i].line = "Warning: Directory does not exist"

\* The directories pillars_of(script) names.
Visited(script) == {pillars_of(script)[i] : i \in 1..Len(pillars_of(script))}

\* C17: when a pillar directory a script iterates over does not exist, the
\* script logs a warning for it and continues with the next pillar; it
\* neither raises nor aborts nor skips the directory without a message.
C17_MissingDirectoryWarned ==
    pc.at = "exit"
    => /\ pc.status = "done"
       /\ pc.pillars = <<>>
       /\ \A dir \in Visited(pc.script) : ~isdir(fs, dir) => WarnedAbout(dir)

(***************************************************************************)
(* The pillar index scripts: fix_pillar_pages.py, fix_template_code.py,    *)
(* update_pillar_order.py, create_question_lists.py, update_sec02_title.py.*)
(* Each walks a hardcoded list of target files under ./docs and rewrites   *)
(* the targets it finds.                                                   *)
(***************************************************************************)
\* Parts of a file of the initial file system, all files together.
MaxParts == 2

QHEAD == "## Questions"
INTRO == "The AWS Well-Architected Framework provides a set of questions"
CARDS_OPEN == "<div class=\"question-cards\">"
CARD_OPEN == "<div class=\"question-card\">"
DIV_CLOSE == "</div>"
FOR == "{% for child in site.pages %}"
IF_CHILD == "{% if child.parent == page.title %}"
ENDIF == "{% endif %}"
ENDFOR == "{% endfor %}"
H3 == "<h3>"
H3_CLOSE == "</h3>"
A_HREF == "<a href=\""
DOT_SLASH == "./"
\* The rest of a card link, '">View details' with its arrow and '</a>'.
VIEW_DETAILS == "\">View details</a>"
SERVICES_FOR == "## AWS Services for "
TITLE_PLACEHOLDER == "{title}"
NAV_ORDER == "nav_order:"
TITLE_KEY == "title: "
SEC02 == "SEC02"
DASH == " - "
COLON == ": "
IDENTITIES == "How do you manage identities for people and machines?"
AUTHENTICATION == "How do you manage authentication for people and machines?"

\* Indentation of two, four, six and eight spaces, one token each.
IND2 == "  "
IND4 == "    "
IND6 == "      "
IND8 == "        "

\* \s
IsBlank(t) == IsSpace(t) \/ t \in {IND2, IND4, IND6, IND8}

\* The position after the run of \s tokens that starts at i.
SpaceEnd(s, i) == Least({k \in i..(Len(s) + 1) : k = Len(s) + 1 \/ ~IsBlank(s[k])})

\* fix_pillar_pages.fix_pillar_page: content.replace of the placeholder
\* heading by the heading with the pillar title.
fix_pillar_page(text, pillar_title) ==
    replace(text, <<SERVICES_FOR, TITLE_PLACEHOLDER>>, <<SERVICES_FOR, pillar_title>>)

\* </div>\s+\{% endif %\}\s+\{% endfor %\}\s+</div> matches s at i: the
\* position after the match, 0 if none.
template_code_at(s, i) ==
    LET a == SpaceEnd(s, i + 1)
        b == SpaceEnd(s, a + 1)
        c == SpaceEnd(s, b + 1)
    IN  IF /\ At(s, i) = DIV_CLOSE
           /\ a > i + 1 /\ At(s, a) = ENDIF
           /\ b > a + 1 /\ At(s, b) = ENDFOR
           /\ c > b + 1 /\ At(s, c) = DIV_CLOSE
        THEN c + 1 ELSE 0

\* fix_template_code.fix_pillar_page: re.sub of the leftover template code
\* by '</div>', every match from left to right.
RECURSIVE template_code_sub(_, _)
template_code_sub(s, pos) ==
    LET i == Least({k \in pos..Len(s) : template_code_at(s, k) # 0})
    IN  IF i = 0 THEN Slice(s, pos, Len(s))
        ELSE Slice(s, pos, i - 1) \o <<DIV_CLOSE>>
             \o template_code_sub(s, template_code_at(s, i))

\* The leftover template code removed with nothing put in its place.
fix_template_code_dropping(text) ==
    LET i == Least({k \in 1..Len(text) : template_code_at(text, k) # 0})
    IN  IF i = 0 THEN text
        ELSE Slice(text, 1, i - 1) \o Slice(text, template_code_at(text, i), Len(text))

fix_template_code(text) == template_code_sub(text, 1)

\* f.readlines(): the lines of the text, each with its newline.
readlines(text) ==
    LET ends == {i \in 1..Len(text) : text[i] = NL \/ i = Len(text)}
        before(e) == {x \in ends : x < e}
        last(k) == CHOOSE e \in ends : Cardinality(before(e)) = k - 1
        first(k) == IF k = 1 THEN 1 ELSE last(k - 1) + 1
    IN  [k \in 1..Cardinality(ends) |-> Slice(text, first(k), last(k))]

\* f.writelines(lines)
RECURSIVE writelines(_)
writelines(lines) ==
    IF lines = <<>> THEN <<>> ELSE Head(lines) \o writelines(Tail(lines))

\* line.strip().startswith('nav_order:')
is_nav_order(line) == strip(line) # <<>> /\ Head(strip(line)) = NAV_ORDER

\* update_pillar_nav_order, the loop: the first nav_order line is replaced,
\* the lines after it are not looked at.
update_nav_order_lines(lines, nav_order) ==
    LET i == Least({k \in 1..Len(lines) : is_nav_order(lines[k])})
    IN  IF i = 0 THEN lines
        ELSE [lines EXCEPT ![i] = <<NAV_ORDER, SP, nav_order, NL>>]

\* update_sec02_title.update_file: the two replacements of the old title.
updated_content(text) ==
    replace(replace(text, <<SEC02, DASH, IDENTITIES>>, <<SEC02, DASH, AUTHENTICATION>>),
            <<SEC02, COLON, IDENTITIES>>, <<SEC02, COLON, AUTHENTICATION>>)

\* A path under ./docs is [dir, name]; a file name is its tokens, the
\* extension one token: <<"SEC01", ".md">>.
MD == ".md"
INDEX == <<"index", MD>>
index_md(dir) == [dir |-> dir, name |-> INDEX]

\* os.path.exists(file_path)
exists(files, path) == path \in DOMAIN files

\* os.listdir(dir_path), as a set: the order is settled by the sort below.
listdir(files, dir) == {p.name : p \in {q \in DOMAIN files : q.dir = dir}}

\* filename.endswith('.md')
endswith_md(filename) == filename # <<>> /\ filename[Len(filename)] = MD

\* filename.split('.')[0]
split_dot_0(filename) == Slice(filename, 1, Least({i \in 1..Len(filename) : filename[i] = MD}) - 1)

\* re.search(r'title: (.*?)$', content, re.MULTILINE): group(1), the rest
\* of the first line that holds 'title: '; None without such a line.
title_match_group1(text) ==
    LET i == FindLit(text, 1, <<TITLE_KEY>>)
        n == FindLit(text, i + 1, <<NL>>)
    IN  IF i = 0 THEN None
        ELSE [group1 |-> Slice(text, i + 1, IF n = 0 THEN Len(text) ELSE n - 1)]

\* The identifiers in ascending order, as str compares them.
IdOrder == <<"SEC01", "SEC02">>

\* get_questions_for_pillar, the loop: the question of every .md file other
\* than index.md that has a title line.
questions_in(files, dir) ==
    {[id |-> split_dot_0(name),
      title |-> strip(title_match_group1(read(files[[dir |-> dir, name |-> name]])).group1),
      filename |-> name] :
        name \in {x \in listdir(files, dir) :
                     /\ endswith_md(x) /\ x # INDEX
                     /\ title_match_group1(read(files[[dir |-> dir, name |-> x]])) # None}}

\* questions.sort(key=lambda q: q['id'])
RECURSIVE sorted_by_id(_, _)
sorted_by_id(questions, k) ==
    IF k > Len(IdOrder) THEN <<>>
    ELSE (IF \E q \in questions : q.id = <<IdOrder[k]>>
          THEN <<CHOOSE q \in questions : q.id = <<IdOrder[k]>> >>
          ELSE <<>>)
         \o sorted_by_id(questions, k + 1)

get_questions_for_pillar(files, dir) == sorted_by_id(questions_in(files, dir), 1)

\* re.search(r'## Questions\s+.*?<div class="question-cards">.*?</div>',
\* content, re.DOTALL): [start, end] of the match, None if there is none.
\* Both .*? are lazy: the match ends at the first </div> after the first
\* opening of the container.
questions_section_match(s) ==
    LET closes(j) == {k \in (j + 1)..Len(s) : s[k] = DIV_CLOSE}
        opens(i) == {j \in (i + 2)..Len(s) : s[j] = CARDS_OPEN /\ closes(j) # {}}
        starts == {i \in 1..Len(s) :
                      s[i] = QHEAD /\ IsBlank(At(s, i + 1)) /\ opens(i) # {}}
        i == Least(starts)
    IN  IF starts = {} THEN None
        ELSE [start |-> i, end |-> Least(closes(Least(opens(i))))]

\* The card of one question.
question_card(question) ==
    <<IND2, CARD_OPEN, NL>>
    \o <<IND4, H3>> \o question.title \o <<H3_CLOSE, NL>>
    \o <<IND4, A_HREF, DOT_SLASH>> \o replace(question.filename, <<MD>>, <<>>)
    \o <<VIEW_DETAILS, NL>>
    \o <<IND2, DIV_CLOSE, NL>>

RECURSIVE question_cards(_)
question_cards(questions) ==
    IF questions = <<>> THEN <<>>
    ELSE question_card(Head(questions)) \o question_cards(Tail(questions))

\* new_questions_section of update_pillar_index.
new_questions_section(questions) ==
    <<QHEAD, NL, NL, INTRO, NL, NL, CARDS_OPEN, NL>>
    \o question_cards(questions) \o <<DIV_CLOSE>>

\* update_pillar_index from the read on: the new content, None when the
\* questions section is not found and nothing is written.
new_content(text, questions) ==
    LET m == questions_section_match(text)
    IN  IF m = None THEN None
        ELSE [text |-> replace(text, Slice(text, m.start, m.end),
                               new_questions_section(questions))]

(***************************************************************************)
(* The files the index scripts find.  A file is written part by part, all  *)
(* its lines ending the same way, before a script is started.              *)
(*   fs    path -> bytes of the file; a path outside the domain is missing *)
(*   orig  the file system when the script was started                     *)
(*   pc    [at, script, targets, status, eol, parts]: the targets the      *)
(*         script still has to visit, how it ended, the line end of the    *)
(*         files and the number of parts written                           *)
(*   out   the lines printed: [line, path]                                 *)
(***************************************************************************)
\* The pillars of the hardcoded lists, two of the six, with their titles
\* and their places in PILLAR_ORDER.
IndexPillars == <<"security", "reliability">>
pillar_title(dir) == IF dir = "security" THEN "Security" ELSE "Reliability"
PILLAR_ORDER(dir) == IF dir = "security" THEN "2" ELSE "3"

SEC01_MD == [dir |-> "security", name |-> <<"SEC01", MD>>]
SEC02_MD == [dir |-> "security", name |-> <<SEC02, MD>>]

\* files_to_update of update_sec02_title, two of the eight.
files_to_update == <<SEC02_MD, index_md("security")>>

IndexScripts ==
    {"fix_pillar_pages", "fix_template_code", "update_pillar_order",
     "create_question_lists", "update_sec02_title"}

\* The targets of a script, in the order of its loop.
targets_of(script) ==
    IF script = "update_sec02_title" THEN files_to_update
    ELSE [i \in 1..Len(IndexPillars) |-> index_md(IndexPillars[i])]

Paths == {index_md("security"), index_md("reliability"), SEC01_MD, SEC02_MD}

\* The questions section update_pillar_pages.generate_pillar_index writes.
TemplateSection ==
    <<QHEAD, NL, NL, INTRO, NL, NL, CARDS_OPEN, NL>>
    \o <<IND2, FOR, NL>>
    \o <<IND4, IF_CHILD, NL>>
    \o <<IND6, CARD_OPEN, NL>>
    \o <<IND8, H3, "{{ child.title }}", H3_CLOSE, NL>>
    \o <<IND8, A_HREF, "{{ child.url | absolute_url }}", VIEW_DETAILS, NL>>
    \o <<IND6, DIV_CLOSE, NL>>
    \o <<IND4, ENDIF, NL>>
    \o <<IND2, ENDFOR, NL>>
    \o <<DIV_CLOSE, NL>>

IndexParts ==
    {"text", "nav", "placeholder", "template", "cards", "nocards", "sec02", "sec02dash"}
QuestionParts == {"text", "title", "sec02"}
parts_of(path) == IF path.name = INDEX THEN IndexParts ELSE QuestionParts

\* The text of a part, its lines ending in \n.
PartText(kind) ==
    CASE kind = "text" -> <<"Text", NL>>
      [] kind = "nav" -> <<NAV_ORDER, SP, "1", NL>>
      [] kind = "title" -> <<TITLE_KEY, "T1", NL>>
      [] kind = "sec02" -> <<TITLE_KEY, SEC02, COLON, IDENTITIES, NL>>
      [] kind = "sec02dash" -> <<SEC02, DASH, IDENTITIES, NL>>
      [] kind = "placeholder" -> <<SERVICES_FOR, TITLE_PLACEHOLDER, NL>>
      [] kind = "template" -> TemplateSection
      [] kind = "cards" ->
            new_questions_section(<<[id |-> <<"SEC01">>, title |-> <<"T1">>,
                                     filename |-> <<"SEC01", MD>>]>>) \o <<NL>>
      [] kind = "nocards" -> new_questions_section(<<>>) \o <<NL>>

\* The bytes of a text whose lines end in eol.
Bytes(text, eol) == [i \in 1..Len(text) |-> IF text[i] = NL THEN eol ELSE text[i]]

IndexInit ==
    /\ fs = <<>> /\ orig = <<>> /\ out = <<>>
    /\ \E eol \in {NL, CRLF} :
          pc = [at |-> "setup", script |-> "none", targets |-> <<>>,
                status |-> "running", eol |-> eol, parts |-> 0]
    /\ ecr = <<>> /\ web = <<>>
    /\ doc = <<>> /\ content = <<>> /\ runs = 0

\* An empty file is created.
CreateFile(path) ==
    /\ pc.at = "setup" /\ path \notin DOMAIN fs
    /\ fs' = (path :> <<>>) @@ fs
    /\ UNCHANGED <<orig, out, pc, ecr, web, doc, content, runs>>

\* A part is appended to a file.
WritePart(path, kind) ==
    /\ pc.at = "setup" /\ path \in DOMAIN fs /\ pc.parts < MaxParts
    /\ fs' = [fs EXCEPT ![path] = @ \o Bytes(PartText(kind), pc.eol)]
    /\ pc' = [pc EXCEPT !.parts = @ + 1]
    /\ UNCHANGED <<orig, out, ecr, web, doc, content, runs>>

\* A script is started.
StartScript(script) ==
    /\ pc.at = "setup"
    /\ pc' = [pc EXCEPT !.at = "loop", !.script = script, !.targets = targets_of(script)]
    /\ orig' = fs
    /\ UNCHANGED <<fs, out, ecr, web, doc, content, runs>>

\* The line printed about a path.
Line(line, path) == [line |-> line, path |-> path]

\* fix_pillar_pages.main, one pillar: fix_pillar_page reads, replaces and
\* writes the index if it exists; a warning otherwise.
fix_pillar_pages_main ==
    /\ pc.script = "fix_pillar_pages" /\ pc.at = "loop" /\ pc.targets # <<>>
    /\ LET file_path == Head(pc.targets)
       IN  IF exists(fs, file_path)
           THEN /\ fs' = [fs EXCEPT ![file_path] =
                            write(fix_pillar_page(read(fs[file_path]), pillar_title(file_path.dir)))]
                /\ out' = Append(out, Line("Fixed", file_path))
           ELSE /\ out' = Append(out, Line("Warning: does not exist", file_path))
                /\ UNCHANGED fs
    /\ pc' = [pc EXCEPT !.targets = Tail(@)]
    /\ UNCHANGED <<orig, ecr, web, doc, content, runs>>

\* fix_template_code.main, one pillar.
fix_template_code_main ==
    /\ pc.script = "fix_template_code" /\ pc.at = "loop" /\ pc.targets # <<>>
    /\ LET file_path == Head(pc.targets)
       IN  IF exists(fs, file_path)
           THEN /\ fs' = [fs EXCEPT ![file_path] = write(fix_template_code(read(fs[file_path])))]
                /\ out' = Append(out, Line("Fixed template code", file_path))
           ELSE /\ out' = Append(out, Line("Warning: does not exist", file_path))
                /\ UNCHANGED fs
    /\ pc' = [pc EXCEPT !.targets = Tail(@)]
    /\ UNCHANGED <<orig, ecr, web, doc, content, runs>>

\* update_pillar_order.main, one pillar: update_pillar_nav_order.
update_pillar_nav_order ==
    /\ pc.script = "update_pillar_order" /\ pc.at = "loop" /\ pc.targets # <<>>
    /\ LET file_path == Head(pc.targets)
       IN  IF ~exists(fs, file_path)
           THEN /\ out' = Append(out, Line("Warning: does not exist", file_path))
                /\ UNCHANGED fs
           ELSE /\ fs' = [fs EXCEPT ![file_path] =
                            write(writelines(update_nav_order_lines(
                                      readlines(read(fs[file_path])), PILLAR_ORDER(file_path.dir))))]
                /\ out' = Append(out, Line("Updated nav_order", file_path))
    /\ pc' = [pc EXCEPT !.targets = Tail(@)]
    /\ UNCHANGED <<orig, ecr, web, doc, content, runs>>

\* create_question_lists.main, one pillar: get_questions_for_pillar, then
\* update_pillar_index.
update_pillar_index ==
    /\ pc.script = "create_question_lists" /\ pc.at = "loop" /\ pc.targets # <<>>
    /\ LET file_path == Head(pc.targets)
           questions == get_questions_for_pillar(fs, file_path.dir)
           found == Line("Found questions", file_path)
       IN  IF ~exists(fs, file_path)
           THEN /\ out' = out \o <<found, Line("Warning: does not exist", file_path)>>
                /\ UNCHANGED fs
           ELSE IF new_content(read(fs[file_path]), questions) = None
           THEN /\ out' = out \o <<found, Line("Warning: Could not find questions section",
                                                file_path)>>
                /\ UNCHANGED fs
           ELSE /\ fs' = [fs EXCEPT ![file_path] =
                            write(new_content(read(fs[file_path]), questions).text)]
                /\ out' = out \o <<found, Line("Updated", file_path)>>
    /\ pc' = [pc EXCEPT !.targets = Tail(@)]
    /\ UNCHANGED <<orig, ecr, web, doc, content, runs>>

\* update_sec02_title.main, one file: update_file writes only a content
\* that changed.
update_file ==
    /\ pc.script = "update_sec02_title" /\ pc.at = "loop" /\ pc.targets # <<>>
    /\ LET file_path == Head(pc.targets)
       IN  IF ~exists(fs, file_path)
           THEN /\ out' = Append(out, Line("Warning: does not exist", file_path))
                /\ UNCHANGED fs
           ELSE IF read(fs[file_path]) # updated_content(read(fs[file_path]))
           THEN /\ fs' = [fs EXCEPT ![file_path] = write(updated_content(read(fs[file_path])))]
                /\ out' = Append(out, Line("Updated", file_path))
           ELSE /\ out' = Append(out, Line("No changes needed", file_path))
                /\ UNCHANGED fs
    /\ pc' = [pc EXCEPT !.targets = Tail(@)]
    /\ UNCHANGED <<orig, ecr, web, doc, content, runs>>

\* The loop of main is over and the script ends.
main_returns ==
    /\ pc.at = "loop" /\ pc.targets = <<>>
    /\ pc' = [pc EXCEPT !.at = "exit", !.status = "done"]
    /\ UNCHANGED <<fs, orig, out, ecr, web, doc, content, runs>>

IndexNext ==
    \/ \E path \in Paths : CreateFile(path)
    \/ \E path \in Paths : \E kind \in parts_of(path) : WritePart(path, kind)
    \/ \E script \in IndexScripts : StartScript(script)
    \/ fix_pillar_pages_main
    \/ fix_template_code_main
    \/ update_pillar_nav_order
    \/ update_pillar_index
    \/ update_file
    \/ main_returns

IndexSpec == IndexInit /\ [][IndexNext]_vars

\* The text lacks the pattern the script looks for.
LacksPattern(script, text) ==
    CASE script = "fix_pillar_pages" -> ~Occurs(text, <<SERVICES_FOR, TITLE_PLACEHOLDER>>)
      [] script = "fix_template_code" ->
            \A i \in 1..Len(text) : template_code_at(text, i) = 0
      [] script = "update_pillar_order" ->
            \A k \in 1..Len(readlines(text)) : ~is_nav_order(readlines(text)[k])
      [] script = "create_question_lists" -> questions_section_match(text) = None
      [] script = "update_sec02_title" ->
            /\ ~Occurs(text, <<SEC02, DASH, IDENTITIES>>)
            /\ ~Occurs(text, <<SEC02, COLON, IDENTITIES>>)

\* A line was printed about the path.
Reported(path) == \E i \in 1..Len(out) : out[i].path = path

\* The targets targets_of(script) names.
TargetSet(script) == {targets_of(script)[i] : i \in 1..Len(targets_of(script))}

\* C18: when a target file of fix_pillar_pages, fix_template_code,
\* update_pillar_order, create_question_lists or update_sec02_title is
\* missing, or exists but lacks the expected pattern, the script raises no
\* error, does not create the file, leaves the existing content unchanged
\* and still processes every remaining target.
C18_MissingFileOrPatternSkipped ==
    pc.at = "exit"
    => /\ pc.status = "done"
       /\ \A path \in TargetSet(pc.script) :
             /\ Reported(path)
             /\ path \notin DOMAIN orig => path \notin DOMAIN fs
             /\ (path \in DOMAIN orig /\ LacksPattern(pc.script, read(orig[path])))
                => (path \in DOMAIN fs /\ fs[path] = orig[path])

(***************************************************************************)
(* generate_wafr_pages_updated.py: the question pages of the hardcoded     *)
(* PILLARS table are generated, a page that is already there is skipped.   *)
(*   fs    path -> bytes of the file; the directory of a pillar is the     *)
(*         path with the empty name                                        *)
(*   orig  the file system before the script was first run                 *)
(*   pc    [at, todo, mains]: the calls of generate_question_file still    *)
(*         to make and the number of times main was started                *)
(*   out   the lines printed: [line, path]                                 *)
(***************************************************************************)
\* Times main is run over the same ./docs.
MaxMains == 2

\* PILLARS, two of its pillars with two and one of their questions.
PILLARS ==
    <<[pillar |-> "Security",
       questions |-> <<[id |-> "SEC01", title |-> "How do you securely operate your workload?"],
                       [id |-> SEC02, title |-> IDENTITIES]>>],
      [pillar |-> "Reliability",
       questions |-> <<[id |-> "REL01", title |-> "How do you manage service quotas and constraints?"]>>]>>

\* The calls main makes, in order: [pillar, question, question_number].
RECURSIVE calls_from(_)
calls_from(k) ==
    IF k > Len(PILLARS) THEN <<>>
    ELSE [i \in 1..Len(PILLARS[k].questions) |->
             [pillar |-> PILLARS[k].pillar, question |-> PILLARS[k].questions[i],
              question_number |-> DigitTok[i]]]
         \o calls_from(k + 1)

\* docs/{pillar_dir}/{question_id}.md and docs/{pillar_dir}
question_md(pillar, id) ==
    [dir |-> pillar_dir(pillar), name |-> <<id, MD>>]
dir_path(pillar) == [dir |-> pillar_dir(pillar), name |-> <<>>]

\* os.makedirs(f"docs/{pillar_dir}", exist_ok=True)
makedirs(files, pillar) ==
    IF dir_path(pillar) \in DOMAIN files THEN files
    ELSE (dir_path(pillar) :> <<>>) @@ files

\* The content generate_question_file writes: front matter, header, the
\* sample sections (the same text for every question, one token) and the
\* related resources.
SAMPLE_SECTIONS == "## Best Practices ... ## Implementation Guidance ... ## AWS Services to Consider ..."
updated_question_page(pillar, question, question_number) ==
    <<"---", NL, TITLE_KEY, question.id, DASH, question.title, NL,
      "layout: default", NL, "parent: ", pillar, NL,
      NAV_ORDER, SP, question_number, NL, "---", NL, NL,
      "<div class=\"pillar-header\">", NL,
      IND2, "<h1>", question.id, COLON, question.title, "</h1>", NL,
      IND2, "<p>*This page contains guidance for addressing this question from the AWS Well-Architected Framework.*</p>", NL,
      DIV_CLOSE, NL, NL,
      SAMPLE_SECTIONS, NL, NL,
      "<div class=\"related-resources\">", NL,
      IND2, "<h2>Related Resources</h2>", NL,
      IND2, "<ul>", NL,
      IND4, "<li>", pillar_dir(pillar), "-pillar/welcome.html", pillar, " Pillar</a></li>", NL,
      IND2, "</ul>", NL, DIV_CLOSE, NL>>

\* What a question file holds before the script is run.
OldContents == {<<>>, <<"Old", CRLF>>, <<TITLE_KEY, "Mine", NL, "Old", NL>>}

QuestionPaths ==
    {question_md(calls_from(1)[i].pillar, calls_from(1)[i].question.id) :
        i \in 1..Len(calls_from(1))}

UpdatedInit ==
    /\ \E P \in SUBSET QuestionPaths : \E old \in [P -> OldContents] :
          fs = [p \in P \cup {[dir |-> q.dir, name |-> <<>>] : q \in P} |->
                   IF p \in P THEN old[p] ELSE <<>>]
    /\ orig = fs
    /\ out = <<>>
    /\ pc = [at |-> "idle", todo |-> <<>>, mains |-> 0]
    /\ ecr = <<>> /\ web = <<>>
    /\ doc = <<>> /\ content = <<>> /\ runs = 0

\* main is started.
main_updated ==
    /\ pc.at = "idle" /\ pc.mains < MaxMains
    /\ pc' = [at |-> "loop", todo |-> calls_from(1), mains |-> pc.mains + 1]
    /\ UNCHANGED <<fs, orig, out, ecr, web, doc, content, runs>>

\* generate_question_file without its test of os.path.exists.
generate_question_file_overwriting ==
    /\ pc.at = "loop" /\ pc.todo # <<>>
    /\ LET call == Head(pc.todo)
           file_path == question_md(call.pillar, call.question.id)
       IN  /\ fs' = (file_path :> write(updated_question_page(
                                      call.pillar, call.question, call.question_number)))
                    @@ makedirs(fs, call.pillar)
           /\ out' = Append(out, Line("Generated file", file_path))
    /\ pc' = [pc EXCEPT !.todo = Tail(@)]
    /\ UNCHANGED <<orig, ecr, web, doc, content, runs>>

\* generate_question_file: the directory is made, an existing file is
\* skipped with a message, a missing one is written.
generate_question_file_updated ==
    /\ pc.at = "loop" /\ pc.todo # <<>>
    /\ LET call == Head(pc.todo)
           file_path == question_md(call.pillar, call.question.id)
       IN  IF exists(makedirs(fs, call.pillar), file_path)
           THEN /\ fs' = makedirs(fs, call.pillar)
                /\ out' = Append(out, Line("File already exists - skipping", file_path))
           ELSE /\ fs' = (file_path :> write(updated_question_page(
                                           call.pillar, call.question, call.question_number)))
                         @@ makedirs(fs, call.pillar)
                /\ out' = Append(out, Line("Generated file", file_path))
    /\ pc' = [pc EXCEPT !.todo = Tail(@)]
    /\ UNCHANGED <<orig, ecr, web, doc, content, runs>>

\* main: every question was visited, "Done!" is printed.
main_updated_done ==
    /\ pc.at = "loop" /\ pc.todo = <<>>
    /\ pc' = [pc EXCEPT !.at = "idle"]
    /\ UNCHANGED <<fs, orig, out, ecr, web, doc, content, runs>>

UpdatedNext ==
    \/ main_updated
    \/ generate_question_file_updated
    \/ main_updated_done

UpdatedSpec == UpdatedInit /\ [][UpdatedNext]_vars

\* The calls that printed the line about the path.
LinesAbout(line, path) ==
    {i \in 1..Len(out) : out[i].line = line /\ out[i].path = path}

\* C19: generate_question_file never modifies a question file that already
\* exists: a file present before a call holds the same content after it,
\* and a file is written only for an identifier that had no file, once.
C19_ExistingFilesKept ==
    /\ \A path \in DOMAIN orig : path \in DOMAIN fs /\ fs[path] = orig[path]
    /\ \A path \in QuestionPaths :
          /\ path \in DOMAIN orig => LinesAbout("Generated file", path) = {}
          /\ Cardinality(LinesAbout("Generated file", path)) <= 1
          /\ \A i \in LinesAbout("Generated file", path) :
                \A j \in LinesAbout("File already exists - skipping", path) : i < j
          /\ (path \in DOMAIN fs /\ path \notin DOMAIN orig)
             => /\ LinesAbout("Generated file", path) # {}
                /\ \E k \in 1..Len(calls_from(1)) :
                      LET call == calls_from(1)[k]
                      IN  /\ path = question_md(call.pillar, call.question.id)
                          /\ fs[path] = write(updated_question_page(
                                 call.pillar, call.question, call.question_number))

\* Both runs of main are over; a file that was there was skipped twice with
\* its content kept, a missing one was generated in the first run and
\* skipped in the second.
C19_Witness ==
    /\ pc.at = "idle" /\ pc.mains = 2
    /\ \E kept \in DOMAIN orig : \E made \in QuestionPaths \ DOMAIN orig :
          /\ kept \in QuestionPaths /\ orig[kept] = <<"Old", CRLF>>
          /\ fs[kept] = orig[kept]
          /\ Cardinality(LinesAbout("File already exists - skipping", kept)) = 2
          /\ made \in DOMAIN fs
          /\ Cardinality(LinesAbout("Generated file", made)) = 1
          /\ Cardinality(LinesAbout("File already exists - skipping", made)) = 1

\* The index had one questions section, which update_pillar_index found,
\* and no other <div>.
OneQuestionsSection(text) ==
    /\ Count(text, <<QHEAD>>) = 1
    /\ questions_section_match(text) # None
    /\ Count(text, <<CARDS_OPEN>>) = 1

\* A token of the template loop of generate_pillar_index.
TemplateCode == {FOR, IF_CHILD, ENDIF, ENDFOR, "{{ child.title }}", "{{ child.url | absolute_url }}"}

\* The text holds the questions section of exactly these questions: one
\* card per question in the order given, each linking to ./<identifier>,
\* the container closed once, and no template code.
HoldsQuestionList(text, questions) ==
    /\ Count(text, <<CARD_OPEN>>) = Len(questions)
    /\ Occurs(text, <<CARDS_OPEN, NL>> \o question_cards(questions) \o <<DIV_CLOSE>>)
    /\ Count(text, <<DIV_CLOSE>>) = Len(questions) + 1
    /\ \A i \in 1..Len(text) : text[i] \notin TemplateCode

\* C20: update_pillar_index replaces the Questions section of a pillar
\* index by one that holds exactly one question-card per .md file of the
\* pillar directory (other than index.md) that has a title line, in
\* ascending order of identifier, each card linking to ./<identifier>; the
\* question-cards container is closed exactly once and nothing of the old
\* section is left behind.
C20_QuestionsSectionReplaced ==
    (pc.at = "exit" /\ pc.script = "create_question_lists")
    => \A path \in TargetSet(pc.script) :
          (path \in DOMAIN orig /\ OneQuestionsSection(read(orig[path])))
          => HoldsQuestionList(read(fs[path]), get_questions_for_pillar(orig, path.dir))

(***************************************************************************)
(* The SEC02 pages: generate_sec02_bp_pages.py and                         *)
(* generate_sec02_correct_bp_pages.py write the best practice pages of     *)
(* SEC02, update_sec02_title.py renames the question in the files of its   *)
(* list.                                                                   *)
(*   fs    path -> bytes of the file                                       *)
(*   orig  the file system when update_sec02_title was started             *)
(*   pc    [at, script, targets, status, ran]: the pages or files still    *)
(*         to visit and the generators that have run                       *)
(*   out   the lines printed: [line, path]                                 *)
(***************************************************************************)
\* BEST_PRACTICES of generate_sec02_bp_pages.py.
BEST_PRACTICES ==
    <<[id |-> "03", title |-> "Enforce the use of temporary credentials", nav_order |-> "3"],
      [id |-> "04", title |-> "Store and use secrets securely", nav_order |-> "4"],
      [id |-> "05", title |-> "Rely on user groups or roles for access control", nav_order |-> "5"],
      [id |-> "06", title |-> "Use user groups or roles for access control", nav_order |-> "6"],
      [id |-> "07", title |-> "Implement just-in-time access mechanisms", nav_order |-> "7"]>>

\* BEST_PRACTICES of generate_sec02_correct_bp_pages.py.
CORRECT_BEST_PRACTICES ==
    <<[id |-> "01", title |-> "Use strong sign-in mechanisms", nav_order |-> "1"],
      [id |-> "02", title |-> "Use temporary credentials", nav_order |-> "2"],
      [id |-> "03", title |-> "Store and use secrets securely", nav_order |-> "3"],
      [id |-> "04", title |-> "Rely on a centralized identity provider", nav_order |-> "4"],
      [id |-> "05", title |-> "Audit and rotate credentials periodically", nav_order |-> "5"],
      [id |-> "06", title |-> "Employ user groups and attributes", nav_order |-> "6"]>>

Generators == {"generate_sec02_bp_pages", "generate_sec02_correct_bp_pages"}

best_practices_of(script) ==
    IF script = "generate_sec02_bp_pages" THEN BEST_PRACTICES ELSE CORRECT_BEST_PRACTICES

\* ./docs/security/SEC02-BP{id}.md
bp_md(id) == [dir |-> "security", name |-> <<SEC02, BP, id, MD>>]

\* TEMPLATE.format(id, title, description, nav_order): the front matter
\* names the question as parent, the related resources link to it.
bp_page(bp) ==
    <<"---", NL, TITLE_KEY, SEC02, BP, bp.id, DASH, bp.title, NL,
      "layout: default", NL,
      "parent: ", SEC02, DASH, IDENTITIES, NL,
      "grand_parent: Security", NL,
      NAV_ORDER, SP, bp.nav_order, NL, "---", NL, NL,
      "<div class=\"pillar-header\">", NL,
      IND2, "<h1>", SEC02, BP, bp.id, COLON, bp.title, "</h1>", NL,
      IND2, "<p>description</p>", NL, DIV_CLOSE, NL, NL,
      "## Implementation guidance ...", NL, NL,
      "<div class=\"related-resources\">", NL,
      IND4, "<li><a href=\"sec-02.html\">", SEC02, COLON, IDENTITIES, "</a></li>", NL,
      DIV_CLOSE, NL>>

\* files_to_update of update_sec02_title.main, all eight.
all_files_to_update ==
    <<SEC02_MD, bp_md("01"), bp_md("02"), bp_md("03"), bp_md("04"), bp_md("05"),
      bp_md("06"), index_md("security")>>

\* A question page written before the scripts are run, with the old title
\* in its front matter and its heading.
OldQuestionPage(eol) ==
    Bytes(<<"---", NL, TITLE_KEY, SEC02, DASH, IDENTITIES, NL, "---", NL,
            "#", SP, SEC02, COLON, IDENTITIES, NL>>, eol)

\* ./docs/security, an entry of the tree when the directory is there.
SECURITY_DIR == [dir |-> "security", name |-> <<>>]

\* The tree before the scripts are run: ./docs/security with some of the
\* old pages in it, or no such directory.
Sec02Init ==
    /\ \/ fs = <<>>
       \/ \E eol \in {NL, CRLF} :
             \E P \in SUBSET {SEC02_MD, bp_md("01"), index_md("security")} :
                fs = [p \in P \cup {SECURITY_DIR} |->
                        IF p = SECURITY_DIR THEN <<>> ELSE OldQuestionPage(eol)]
    /\ orig = <<>> /\ out = <<>>
    /\ pc = [at |-> "idle", script |-> "none", targets |-> <<>>, status |-> "running",
             ran |-> {}]
    /\ ecr = <<>> /\ web = <<>>
    /\ doc = <<>> /\ content = <<>> /\ runs = 0

\* A generator is started, each at most once.
generator_main(script) ==
    /\ pc.at = "idle" /\ script \notin pc.ran
    /\ pc' = [pc EXCEPT !.at = "generate", !.script = script, !.status = "running",
                        !.targets = best_practices_of(script), !.ran = @ \cup {script}]
    /\ UNCHANGED <<fs, orig, out, ecr, web, doc, content, runs>>

\* main of a generator, one best practice: the page is written, except
\* that generate_sec02_correct_bp_pages skips BP01 and BP04.  Neither main
\* makes the directory: without ./docs/security open(file_path, "w") raises
\* FileNotFoundError and the script ends there, nothing written or printed
\* for this best practice.
generate_bp_page ==
    /\ pc.at = "generate" /\ pc.targets # <<>>
    /\ LET bp == Head(pc.targets)
       IN  IF pc.script = "generate_sec02_correct_bp_pages" /\ bp.id \in {"01", "04"}
           THEN /\ out' = Append(out, Line("Skipping", bp_md(bp.id)))
                /\ pc' = [pc EXCEPT !.targets = Tail(@)]
                /\ UNCHANGED fs
           ELSE IF ~exists(fs, SECURITY_DIR)
           THEN /\ pc' = [pc EXCEPT !.at = "idle", !.script = "none",
                                    !.targets = <<>>, !.status = "raised"]
                /\ UNCHANGED <<fs, out>>
           ELSE /\ fs' = (bp_md(bp.id) :> write(bp_page(bp))) @@ fs
                /\ out' = Append(out, Line("Generated", bp_md(bp.id)))
                /\ pc' = [pc EXCEPT !.targets = Tail(@)]
    /\ UNCHANGED <<orig, ecr, web, doc, content, runs>>

\* The generator ends.
generator_done ==
    /\ pc.at = "generate" /\ pc.targets = <<>>
    /\ pc' = [pc EXCEPT !.at = "idle", !.script = "none"]
    /\ UNCHANGED <<fs, orig, out, ecr, web, doc, content, runs>>

\* update_sec02_title.main is started; update_file and main_returns are
\* its steps.
update_sec02_title_main ==
    /\ pc.at = "idle"
    /\ pc' = [pc EXCEPT !.at = "loop", !.script = "update_sec02_title",
                        !.status = "running", !.targets = all_files_to_update]
    /\ orig' = fs
    /\ UNCHANGED <<fs, out, ecr, web, doc, content, runs>>

Sec02Next ==
    \/ \E script \in Generators : generator_main(script)
    \/ generate_bp_page
    \/ generator_done
    \/ update_sec02_title_main
    \/ update_file
    \/ main_returns

Sec02Spec == Sec02Init /\ [][Sec02Next]_vars

\* The text holds the old title in one of its two forms.
HoldsOldTitle(text) ==
    \/ Occurs(text, <<SEC02, DASH, IDENTITIES>>)
    \/ Occurs(text, <<SEC02, COLON, IDENTITIES>>)

\* The SEC02 pages under docs/security: SEC02.md and SEC02-BP*.md.
Sec02Pages(files) ==
    {p \in DOMAIN files : p.dir = "security" /\ p.name # <<>> /\ Head(p.name) = SEC02}

\* C21: after update_sec02_title has run, no SEC02 page under
\* docs/security, including every SEC02-BP page the two generators wrote,
\* still holds the old title in either form.
C21_NoOldTitleLeft ==
    (pc.at = "exit" /\ pc.script = "update_sec02_title")
    => \A path \in Sec02Pages(fs) : ~HoldsOldTitle(read(fs[path]))

\* The lines of a file as it is stored, each with its line end.
byte_lines(bytes) ==
    LET ends == {i \in 1..Len(bytes) : bytes[i] \in {NL, CRLF, CR} \/ i = Len(bytes)}
        before(e) == {x \in ends : x < e}
        last(k) == CHOOSE e \in ends : Cardinality(before(e)) = k - 1
        first(k) == IF k = 1 THEN 1 ELSE last(k - 1) + 1
    IN  [k \in 1..Cardinality(ends) |-> Slice(bytes, first(k), last(k))]

\* A stored line without its line end and the blanks around it.
line_text(line) == strip(SelectSeq(line, LAMBDA t : t \notin {CRLF, CR}))

\* The stored line starts with nav_order:.
starts_with_nav_order(line) == line_text(line) # <<>> /\ Head(line_text(line)) = NAV_ORDER

\* The index of the first nav_order line, 0 if there is none.
first_nav_order(lines) == Least({k \in 1..Len(lines) : starts_with_nav_order(lines[k])})

\* The file after differs from the file before in at most the first
\* nav_order line, which now carries the value.
OnlyNavOrderSet(before, after, nav_order) ==
    LET b == byte_lines(before)
        a == byte_lines(after)
        i == first_nav_order(b)
    IN  /\ Len(a) = Len(b)
        /\ \A k \in 1..Len(b) : k # i => a[k] = b[k]
        /\ i # 0 => line_text(a[i]) = <<NAV_ORDER, SP, nav_order>>

\* C22: update_pillar_nav_order changes at most one line of a pillar index,
\* the first line that starts with nav_order:, sets it to the value of the
\* pillar in PILLAR_ORDER and leaves every other line unchanged; after main
\* the indexes that exist carry pairwise distinct nav_order values.
C22_OnlyNavOrderLineChanged ==
    (pc.at = "exit" /\ pc.script = "update_pillar_order")
    => /\ \A path \in TargetSet(pc.script) :
             path \in DOMAIN orig
             => /\ path \in DOMAIN fs
                /\ OnlyNavOrderSet(orig[path], fs[path], PILLAR_ORDER(path.dir))
       /\ \A p \in TargetSet(pc.script) : \A q \in TargetSet(pc.script) :
             LET lp == byte_lines(fs[p])
                 lq == byte_lines(fs[q])
             IN  (/\ p # q /\ p \in DOMAIN fs /\ q \in DOMAIN fs
                  /\ first_nav_order(lp) # 0 /\ first_nav_order(lq) # 0)
                 => line_text(lp[first_nav_order(lp)]) # line_text(lq[first_nav_order(lq)])

(***************************************************************************)
(* The four link-fixing scripts run over the files of docs.  fs is the     *)
(* tree, orig the tree when the running main started, out what was         *)
(* printed; pc holds the script, the files main still has to visit, the    *)
(* last call (file, bytes before it, whether it wrote, what it returned),  *)
(* the files_updated counter and the number of times main was started.     *)
(***************************************************************************)
MaxPasses == 2

SECURITY_SLASH == "security/"

\* r'href="(\./SEC\d+(?:-BP\d+)?)"' of fix_security_links.py matches at i.
security_link_at(s, i) ==
    LET n == NumberEnd(s, i + 3)
        e == BpEnd(s, n)
    IN  IF /\ At(s, i) = HREF /\ At(s, i + 1) = DOT /\ At(s, i + 2) = "SEC"
           /\ n > i + 3 /\ At(s, e) = QUOTE
        THEN e ELSE 0

\* re.sub of fix_security_links.py: link[2:] + '.html'.
RECURSIVE security_links_sub(_, _)
security_links_sub(s, pos) ==
    IF pos > Len(s) THEN <<>>
    ELSE LET e == security_link_at(s, pos)
         IN  IF e = 0 THEN <<s[pos]>> \o security_links_sub(s, pos + 1)
             ELSE <<HREF>> \o Slice(s, pos + 2, e - 1) \o <<HTML, QUOTE>>
                  \o security_links_sub(s, e + 1)

\* rf'href="({pillar_name}\d+-BP\d+\.html)"' matches at i.
pillar_question_link_at(s, i, pillar_name) ==
    LET n == NumberEnd(s, i + 2)
        e == NumberEnd(s, n + 1)
    IN  IF /\ At(s, i) = HREF /\ At(s, i + 1) = pillar_name
           /\ n > i + 2 /\ At(s, n) = BP /\ e > n + 1
           /\ At(s, e) = HTML /\ At(s, e + 1) = QUOTE
        THEN e + 1 ELSE 0

\* re.sub of fix_pillar_question_links: './' + link.
RECURSIVE pillar_question_links_sub(_, _, _)
pillar_question_links_sub(s, pos, pillar_name) ==
    IF pos > Len(s) THEN <<>>
    ELSE LET e == pillar_question_link_at(s, pos, pillar_name)
         IN  IF e = 0
             THEN <<s[pos]>> \o pillar_question_links_sub(s, pos + 1, pillar_name)
             ELSE <<HREF, DOT>> \o Slice(s, pos + 1, e - 1) \o <<QUOTE>>
                  \o pillar_question_links_sub(s, e + 1, pillar_name)

\* r'href="(\./SEC\d+(?:-BP\d+)?\.html)"' of fix_security_relative_paths.py.
security_path_at(s, i) ==
    LET n == NumberEnd(s, i + 3)
        e == BpEnd(s, n)
    IN  IF /\ At(s, i) = HREF /\ At(s, i + 1) = DOT /\ At(s, i + 2) = "SEC"
           /\ n > i + 3 /\ At(s, e) = HTML /\ At(s, e + 1) = QUOTE
        THEN e + 1 ELSE 0

\* re.sub of fix_security_relative_paths.py:
\* link.replace('./SEC', './security/SEC').
RECURSIVE security_paths_sub(_, _)
security_paths_sub(s, pos) ==
    IF pos > Len(s) THEN <<>>
    ELSE LET e == security_path_at(s, pos)
         IN  IF e = 0 THEN <<s[pos]>> \o security_paths_sub(s, pos + 1)
             ELSE <<HREF, DOT, SECURITY_SLASH>> \o Slice(s, pos + 2, e - 1)
                  \o <<QUOTE>> \o security_paths_sub(s, e + 1)

LinkScripts ==
    {"fix_all_pillar_links", "fix_security_links", "fix_relative_links",
     "fix_security_relative_paths"}

\* pillars of fix_relative_links.main, two of the six.
pillars == [security |-> "SEC", reliability |-> "REL"]

\* The files main calls its function on.
link_targets(script, files) ==
    CASE script = "fix_all_pillar_links" ->
           {p \in DOMAIN files : endswith_md(p.name)}
      [] script = "fix_security_links" ->
           {p \in DOMAIN files : p.dir = "security" /\ endswith_md(p.name)}
      [] script = "fix_relative_links" ->
           {p \in DOMAIN files : p.dir \in DOMAIN pillars /\ endswith_md(p.name)}
      [] script = "fix_security_relative_paths" ->
           {p \in DOMAIN files : p = index_md("security")}

\* updated_content of the function main calls on file_path.
substituted(script, file_path, text) ==
    CASE script = "fix_all_pillar_links" -> pillar_links_sub(text, 1)
      [] script = "fix_security_links" -> security_links_sub(text, 1)
      [] script = "fix_relative_links" ->
           IF file_path.name = INDEX
           THEN pillar_index_links_sub(text, 1, pillars[file_path.dir])
           ELSE pillar_question_links_sub(text, 1, pillars[file_path.dir])
      [] script = "fix_security_relative_paths" -> security_paths_sub(text, 1)

\* Only fix_security_relative_paths.main keeps no files_updated counter.
counts_files(script) == script # "fix_security_relative_paths"

content_always_differs(text, new_text) == TRUE

\* if content != updated_content:
content_differs(text, new_text) == text # new_text

\* The files of docs the scripts are tried on.
NOTES_TXT == [dir |-> "security", name |-> <<"notes", ".txt">>]
FixPaths == {index_md("security"), SEC01_MD, index_md("reliability")}

\* What a file holds: one line, a link of its pillar or text, and a line of
\* text after it.
FixLines(path) ==
    {TextLine} \cup
    {[dot |-> k[1], id |-> pillars[path.dir], bp |-> k[2], html |-> k[3]] :
        k \in {<<TRUE, FALSE, FALSE>>, <<FALSE, FALSE, TRUE>>,
               <<TRUE, FALSE, TRUE>>, <<FALSE, TRUE, TRUE>>,
               <<TRUE, TRUE, FALSE>>}}

FixFile(l, eol) == LinesText(<<l, TextLine>>, eol)

FixInit ==
    /\ \E eol \in {NL, CRLF} : \E S \in SUBSET FixPaths :
         \E k \in [S -> Lines] :
            /\ \A p \in S : k[p] \in FixLines(p)
            /\ fs = [p \in S \cup {NOTES_TXT} |->
                        IF p \in S THEN FixFile(k[p], eol)
                        ELSE FixFile([dot |-> TRUE, id |-> "SEC", bp |-> FALSE,
                                      html |-> FALSE], eol)]
    /\ orig = fs
    /\ out = <<>>
    /\ pc = [at |-> "idle", script |-> "none", targets |-> {}, file |-> None,
             before |-> None, wrote |-> FALSE, returned |-> FALSE,
             files_updated |-> 0, passes |-> 0]
    /\ ecr = <<>> /\ web = <<>>
    /\ doc = <<>> /\ content = <<>> /\ runs = 0

\* main() of a link script starts: files_updated = 0 and the files to visit.
fix_links_main(script) ==
    /\ pc.at \in {"idle", "exit"}
    /\ pc.script \in {"none", script}
    /\ pc.passes < MaxPasses
    /\ pc' = [pc EXCEPT !.at = "loop", !.script = script,
                        !.targets = link_targets(script, fs),
                        !.file = None, !.before = None, !.wrote = FALSE,
                        !.returned = FALSE, !.files_updated = 0,
                        !.passes = @ + 1]
    /\ orig' = fs
    /\ UNCHANGED <<fs, out, ecr, web, doc, content, runs>>

\* One call of the script's function from main: read, substitute, write
\* back and return True if the content changed, else return False.
fix_links_call(file_path) ==
    /\ pc.at = "loop"
    /\ file_path \in pc.targets
    /\ LET text == read(fs[file_path])
           new_text == substituted(pc.script, file_path, text)
           changed == content_differs(text, new_text)
       IN  /\ fs' = IF changed
                    THEN [fs EXCEPT ![file_path] = write(new_text)]
                    ELSE fs
           /\ out' = IF changed THEN Append(out, <<"Fixed links in", file_path>>)
                     ELSE out
           /\ pc' = [pc EXCEPT !.targets = @ \ {file_path},
                               !.file = file_path,
                               !.before = fs[file_path],
                               !.wrote = changed,
                               !.returned = changed,
                               !.files_updated =
                                   IF changed /\ counts_files(pc.script)
                                   THEN @ + 1 ELSE @]
    /\ UNCHANGED <<orig, ecr, web, doc, content, runs>>

\* What fix_security_relative_paths.main prints: what became of the
\* security index, or that it is not there.
security_index_line(found, returned) ==
    IF ~found THEN "Security index file not found"
    ELSE IF returned THEN "Updated security index"
    ELSE "No changes needed"

\* main() has visited every file: the scripts that count print the total,
\* fix_security_relative_paths.main prints the line about the index.
fix_links_done ==
    /\ pc.at = "loop" /\ pc.targets = {}
    /\ pc' = [pc EXCEPT !.at = "exit"]
    /\ out' = IF counts_files(pc.script)
              THEN Append(out, <<"Updated files", pc.files_updated>>)
              ELSE Append(out, <<security_index_line(
                                     exists(orig, index_md("security")),
                                     pc.returned), 0>>)
    /\ UNCHANGED <<fs, orig, ecr, web, doc, content, runs>>

FixNext ==
    \/ \E script \in LinkScripts : fix_links_main(script)
    \/ \E file_path \in FixPaths : fix_links_call(file_path)
    \/ fix_links_done

FixSpec == FixInit /\ [][FixNext]_vars

\* The files whose bytes differ between two trees.
ChangedFiles(before, after) ==
    {p \in DOMAIN after : p \notin DOMAIN before \/ after[p] # before[p]}

\* C23: each link-fixing function writes the file only when the substituted
\* content differs from the content read and returns True exactly then, the
\* file changes exactly then, and the files_updated total main prints is the
\* number of files whose content changed.
C23_WritesAndCountsChangedFiles ==
    /\ (pc.at \in {"loop", "exit"} /\ pc.file # None) =>
          LET text == read(pc.before)
              differs == substituted(pc.script, pc.file, text) # text
          IN  /\ pc.wrote = differs
              /\ pc.returned = differs
              /\ (fs[pc.file] # pc.before) = differs
    /\ (pc.at = "exit" /\ counts_files(pc.script)) =>
          /\ pc.files_updated = Cardinality(ChangedFiles(orig, fs))
          /\ out[Len(out)] = <<"Updated files", Cardinality(ChangedFiles(orig, fs))>>

\* A main that fixed one file and found another with nothing to fix.
C23_Witness ==
    /\ pc.at = "exit" /\ counts_files(pc.script)
    /\ pc.files_updated = 1 /\ ~pc.returned
    /\ Cardinality(link_targets(pc.script, fs)) >= 2

\* C29: each of the four link-fixing scripts is idempotent: a second run on
\* its own output changes no file.
C29_SecondRunChangesNoFile ==
    pc.passes >= 2 => (fs = orig /\ ~pc.wrote /\ pc.files_updated = 0)

\* A script that fixed a file in its first run has finished its second.
C29_Witness ==
    /\ pc.passes = 2 /\ pc.at = "exit"
    /\ \E i \in 1..Len(out) : out[i][1] = "Fixed links in"
    /\ link_targets(pc.script, fs) # {}

(***************************************************************************)
(* The registry script, call by call.                                      *)
(***************************************************************************)
\* The script is between two of the four calls of the image in hand, or
\* about to make the first.
InHand == pc.at \in {"put_temp", "delete_tag", "put_tag", "delete_temp"}

\* The step makes the call c of the image in hand, which turns the registry
\* into reg, and leaves the script before the call next.
CallStep(c, reg, next) == pc.at = c /\ ecr' = reg /\ pc'.at = next

\* C24: the script makes four calls per image, in the order put(temp),
\* delete(tag), put(tag), delete(temp), and at every point between two calls
\* the manifest of the image is named by the tag or by the temporary tag.
C24_FourCallsKeepATag ==
    /\ [](InHand => {pc.imageTag, tempTag(pc.imageTag)}
                       \cap TagsOf(ecr, pc.imageManifest) # {})
    /\ [][(InHand /\ pc'.at # "stopped") =>
            \/ CallStep("put_temp",
                        put_image(ecr, pc.imageManifest, tempTag(pc.imageTag)),
                        "delete_tag")
            \/ CallStep("delete_tag", batch_delete_image(ecr, pc.imageTag),
                        "put_tag")
            \/ CallStep("put_tag",
                        put_image(ecr, pc.imageManifest, pc.imageTag),
                        "delete_temp")
            \/ CallStep("delete_temp",
                        batch_delete_image(ecr, tempTag(pc.imageTag)),
                        "batch_get_image")]_vars
    /\ [][(~InHand \/ pc'.at = "stopped") => ecr' = ecr]_vars

\* Between the delete and the second put the manifest is named by the
\* temporary tag alone, and the run goes on.
C24_Witness ==
    /\ pc.at = "put_tag"
    /\ TagsOf(ecr, pc.imageManifest) = {tempTag(pc.imageTag)}
    /\ Len(pc.todo) >= 2

\* C25: when the script completes without error, every tag that existed
\* before the run, a tag named like another tag plus -temp included, exists
\* afterwards and names the same manifest, and no tag made by the script
\* remains.
C25_TagsRestored ==
    pc.at = "done"
    => /\ \A t \in DOMAIN orig : t \in DOMAIN ecr /\ ecr[t] = orig[t]
       /\ DOMAIN ecr \subseteq DOMAIN orig

(***************************************************************************)
(* Lists of steps and bullets in the known sections.                       *)
(***************************************************************************)
\* The kinds of list item a section is written with: the one its strict
\* pattern finds and the plain one.
ListKinds(name) ==
    CASE name = "Implementation Guidance" -> {"bstep", "step"}
      [] name = "AWS Services to Consider" -> {"bsvc", "bullet"}
      [] name = "Related Resources" -> {"link", "bullet"}
      [] OTHER -> {}

\* The only section of d is a list: every item is a numbered step or a
\* bullet.
ListSection(d) ==
    /\ WellHeaded(d) /\ Len(d.secs) = 1
    /\ d.secs[1].items # <<>>
    /\ \A j \in 1..Len(d.secs[1].items) :
          d.secs[1].items[j] \in ListKinds(d.secs[1].name)

\* C26: the function discards no text of a recognized section: every
\* numbered step of Implementation Guidance and every bullet of AWS Services
\* and Related Resources is inside a wrapper block of the output, also when
\* only some of the items match the strict pattern.
C26_NoListItemDiscarded ==
    (runs = 1 /\ ListSection(doc))
    => /\ \A j \in 1..Len(doc.secs[1].items) :
             Occurs(content, <<BodyWord[j]>>)
       /\ Wrappers(doc.secs[1].name, content) >= Len(doc.secs[1].items)

(***************************************************************************)
(* create_question_lists.py and fix_template_code.py run one after the     *)
(* other over the indexes update_pillar_pages.py generated.                *)
(*   fs    path -> bytes of the file                                       *)
(*   doc   the tree before the first script was run                        *)
(*   orig  the tree when the running main was started                      *)
(*   pc    [at, script, targets, status, ran]: ran is the scripts started  *)
(*         so far, in order                                                *)
(***************************************************************************)
\* Scripts run one after the other over the same ./docs.
MaxScriptRuns == 2

\* content of generate_pillar_index: front matter, header, key areas, the
\* questions section with its template loop, one service and the resources.
generated_index(dir) ==
    <<"---", NL, TITLE_KEY, pillar_title(dir), NL, NAV_ORDER, SP, "2", NL,
      "---", NL, NL,
      "<div class=\"pillar-header\">", NL, IND2, "<h1>", pillar_title(dir),
      " Pillar</h1>", NL, DIV_CLOSE, NL, NL,
      "## Key Areas", NL, NL>>
    \o TemplateSection
    \o <<NL, SERVICES_FOR, TITLE_PLACEHOLDER, NL, NL,
         "<div class=\"aws-service\">", NL, IND2, "<h4>", "AWS IAM", "</h4>", NL,
         DIV_CLOSE, NL, NL,
         "<div class=\"related-resources\">", NL, IND2, "<ul>", NL, IND2, "</ul>",
         NL, DIV_CLOSE>>

\* The index with the question list in place of the template loop.
index_with_questions(dir, questions) ==
    LET s == generated_index(dir)
        a == Least({i \in 1..Len(s) : s[i] = QHEAD})
    IN  Slice(s, 1, a - 1) \o new_questions_section(questions)
        \o Slice(s, a + Len(TemplateSection) - 1, Len(s))

CardScripts == {"create_question_lists", "fix_template_code"}

CardsInit ==
    /\ \E q1 \in {"none", "title", "text"} : \E q2 \in {"none", "sec02"} :
       \E I \in {{index_md("security")}, {index_md("security"), index_md("reliability")}} :
          fs = [p \in I \cup (IF q1 = "none" THEN {} ELSE {SEC01_MD})
                        \cup (IF q2 = "none" THEN {} ELSE {SEC02_MD}) |->
                   IF p \in I THEN write(generated_index(p.dir))
                   ELSE IF p = SEC01_MD THEN write(PartText(q1))
                   ELSE write(PartText(q2))]
    /\ doc = fs /\ orig = fs /\ out = <<>>
    /\ pc = [at |-> "idle", script |-> "none", targets |-> <<>>,
             status |-> "running", ran |-> <<>>]
    /\ ecr = <<>> /\ web = <<>>
    /\ content = <<>> /\ runs = 0

\* main of one of the two scripts is started; update_pillar_index or
\* fix_template_code_main and main_returns are its steps.
cards_script_main(script) ==
    /\ pc.at \in {"idle", "exit"}
    /\ Len(pc.ran) < MaxScriptRuns
    /\ pc' = [pc EXCEPT !.at = "loop", !.script = script,
                        !.targets = targets_of(script),
                        !.status = "running", !.ran = Append(@, script)]
    /\ orig' = fs
    /\ UNCHANGED <<fs, out, ecr, web, doc, content, runs>>

CardsNext ==
    \/ \E script \in CardScripts : cards_script_main(script)
    \/ update_pillar_index
    \/ fix_template_code_main
    \/ main_returns

CardsSpec == CardsInit /\ [][CardsNext]_vars

\* The indexes the scripts are run over.
Indexes(files) == {p \in DOMAIN files : p.name = INDEX}

\* C27: create_question_lists run a second time on an index it has updated
\* leaves the index unchanged: the same question cards and the same closing
\* </div>.
C27_SecondListRunChangesNothing ==
    (pc.at = "exit" /\ Len(pc.ran) >= 2
       /\ pc.ran[Len(pc.ran)] = "create_question_lists"
       /\ pc.ran[Len(pc.ran) - 1] = "create_question_lists")
    => \A p \in Indexes(fs) :
          /\ fs[p] = orig[p]
          /\ Count(read(fs[p]), <<CARD_OPEN>>) = Count(read(orig[p]), <<CARD_OPEN>>)
          /\ Count(read(fs[p]), <<DIV_CLOSE>>) = Count(read(orig[p]), <<DIV_CLOSE>>)

\* C28: on a freshly generated index create_question_lists and
\* fix_template_code commute: run in either order they leave the same file,
\* the generated index with one card per question and the closing tag of the
\* container in place of the template loop, and no {% endif %} or
\* {% endfor %}.
C28_ListAndTemplateFixCommute ==
    (pc.at = "exit"
       /\ pc.ran \in {<<"create_question_lists", "fix_template_code">>,
                      <<"fix_template_code", "create_question_lists">>})
    => \A p \in Indexes(fs) :
          LET questions == get_questions_for_pillar(doc, p.dir)
              text == read(fs[p])
          IN  /\ fs[p] = write(index_with_questions(p.dir, questions))
              /\ Count(text, <<CARD_OPEN>>) = Len(questions)
              /\ Count(text, <<CARDS_OPEN>>) = 1
              /\ ~Occurs(text, <<ENDIF>>) /\ ~Occurs(text, <<ENDFOR>>)

\* The template fix and then the question lists have run over generated
\* indexes, the security one with two questions.
C28_Witness ==
    /\ pc.at = "exit"
    /\ pc.ran = <<"fix_template_code", "create_question_lists">>
    /\ Len(get_questions_for_pillar(doc, "security")) = 2
    /\ index_md("reliability") \in DOMAIN fs
    /\ fs[index_md("security")] # doc[index_md("security")]

====
